---- MODULE Spec2Model ----
(***************************************************************************)
(* The Clisp interpreter (src/unnamed/part_001): lexer, parser, evaluator, *)
(* environment frames and the read-eval loop, as a state machine.          *)
(*                                                                         *)
(* Text is a sequence of characters (one-character strings; "NL" is the    *)
(* newline).  A double is modelled by an integer: the inputs hold decimal  *)
(* integer literals only and never divide inexactly.                       *)
(***************************************************************************)
EXTENDS Integers, Sequences, FiniteSets, TLC

VARIABLES
    frames,     \* e0 (handle 1), the envs arena and the let frames on the stack
    procs,      \* the procs arena
    cs,         \* Cell_stream cs: the streams, ip, old, owns, ct
    print_res,  \* start's print_res
    pc,         \* position of start's loop: "read", "eval" or "crashed"
    parsed,     \* the List returned by expr(true), waiting for eval
    lhsFirst,   \* the build's order for  a[k] = eval(...)  (unspecified before C++17)
    lastText,   \* history: the text typed for the expression last read
    lastRes,    \* history: the outcome of the last loop iteration
    out,        \* what start has written to cout in the current loop iteration
                \* (the trace lines eval and evlist write are not kept)
    pre,        \* history: frames and procs when the last eval started
    steps,      \* history: number of lines typed so far
    suite,      \* the set of lines this session draws from
    argv,       \* main's arguments after the program name
    inited      \* expr_str's static bool inited (the embedded build)

vars == <<frames, procs, cs, print_res, pc, parsed, lhsFirst, lastText, lastRes, out, pre,
          steps, suite, argv, inited>>

(***************************************************************************)
(* Cell: Kind plus the variant<string, double, Proc*, List>.               *)
(***************************************************************************)
CellK(k) == [kind |-> k, tag |-> "string", str |-> <<>>, num |-> 0, proc |-> 0, list |-> <<>>]

CellNum(n) == [kind |-> "Number", tag |-> "double", str |-> <<>>, num |-> n, proc |-> 0, list |-> <<>>]

CellStr(s) == [kind |-> "Name", tag |-> "string", str |-> s, num |-> 0, proc |-> 0, list |-> <<>>]

CellProc(p) == [kind |-> "Proc", tag |-> "proc", str |-> <<>>, num |-> 0, proc |-> p, list |-> <<>>]

CellList(l) == [kind |-> "Expr", tag |-> "list", str |-> <<>>, num |-> 0, proc |-> 0, list |-> l]

CellBool(b) == CellK(IF b THEN "True" ELSE "False")

\* operator bool()
Truthy(c) == c.kind # "False"

(***************************************************************************)
(* Characters.                                                             *)
(***************************************************************************)
IsSpace(c) == c \in {" ", "NL"}

Digits == <<"0", "1", "2", "3", "4", "5", "6", "7", "8", "9">>

IsDigit(c) == \E i \in 1..10 : Digits[i] = c

DigitVal(c) == (CHOOSE i \in 1..10 : Digits[i] = c) - 1

\* static_cast<Kind>(c) for the single-character tokens
CharKind(c) ==
    CASE c = "!" -> "Not"   [] c = "&" -> "And"  [] c = "'" -> "Quote"
      [] c = "(" -> "Lp"    [] c = ")" -> "Rp"   [] c = "*" -> "Mul"
      [] c = "+" -> "Add"   [] c = "-" -> "Sub"  [] c = ";" -> "Comment"
      [] c = "/" -> "Div"   [] c = "<" -> "Less" [] c = "=" -> "Equal"
      [] c = ">" -> "Greater" [] c = "|" -> "Or"

SingleChars == {"!", "&", "'", "(", ")", "*", "+", "-", ";", "/", "<", "=", ">", "|"}

\* the first letters for which Cell_stream::get consults the keyword table
KeywordLetters == {"a", "c", "d", "e", "i", "l", "n", "o"}

\* map<string, Kind> keywords
keywords ==
    << <<<<"d","e","f","i","n","e">>, "Define">>,
       <<<<"l","a","m","b","d","a">>, "Lambda">>,
       <<<<"c","o","n","d">>, "Cond">>,
       <<<<"c","o","n","s">>, "Cons">>,
       <<<<"c","a","r">>, "Car">>,
       <<<<"c","d","r">>, "Cdr">>,
       <<<<"l","i","s","t">>, "List">>,
       <<<<"e","l","s","e">>, "Else">>,
       <<<<"e","m","p","t","y","?">>, "Empty">>,
       <<<<"a","n","d">>, "And">>,
       <<<<"o","r">>, "Or">>,
       <<<<"n","o","t">>, "Or">>,
       <<<<"c","a","t">>, "Cat">>,
       <<<<"i","n","c","l","u","d","e">>, "Include">>,
       <<<<"b","e","g","i","n">>, "Begin">>,
       <<<<"l","e","t">>, "Let">> >>

\* keywords.count(temp)
IsKeyword(w) == \E i \in 1..Len(keywords) : keywords[i][1] = w

\* keywords[temp]
KeywordKind(w) == keywords[CHOOSE i \in 1..Len(keywords) : keywords[i][1] = w][2]

(***************************************************************************)
(* An istream: the characters, the read position and the state bits.       *)
(***************************************************************************)
MkStream(text, failed) == [buf |-> text, pos |-> 0, eof |-> FALSE, fail |-> failed, deleted |-> FALSE]

Good(s) == ~s.eof /\ ~s.fail

\* istream::get(c): the stream after the call; the call succeeded iff ~fail
StreamGet(s) ==
    IF ~Good(s) THEN [s EXCEPT !.fail = TRUE]
    ELSE IF s.pos >= Len(s.buf) THEN [s EXCEPT !.eof = TRUE, !.fail = TRUE]
    ELSE [s EXCEPT !.pos = @ + 1]

\* istream::putback: clears eofbit, steps back one character
StreamPutback(s) ==
    IF s.fail \/ s.pos = 0 THEN [s EXCEPT !.eof = FALSE, !.fail = TRUE]
    ELSE [s EXCEPT !.eof = FALSE, !.pos = @ - 1]

\* the end of the whitespace-delimited word that starts at position p (0-based)
RECURSIVE WordEnd(_, _)
WordEnd(buf, p) ==
    IF p >= Len(buf) \/ IsSpace(buf[p + 1]) THEN p ELSE WordEnd(buf, p + 1)

\* the end of the digit run that starts at position p
RECURSIVE DigitsEnd(_, _)
DigitsEnd(buf, p) ==
    IF p >= Len(buf) \/ ~IsDigit(buf[p + 1]) THEN p ELSE DigitsEnd(buf, p + 1)

\* the value of a decimal literal
RECURSIVE DecValue(_)
DecValue(ds) ==
    IF Len(ds) = 0 THEN 0
    ELSE 10 * DecValue(SubSeq(ds, 1, Len(ds) - 1)) + DigitVal(ds[Len(ds)])

\* temp.pop_back() while temp.back() == ')'
RECURSIVE StripRp(_)
StripRp(w) ==
    IF Len(w) > 0 /\ w[Len(w)] = ")" THEN StripRp(SubSeq(w, 1, Len(w) - 1)) ELSE w

\* istream::ignore(9001, '\n')
RECURSIVE SkipLine(_, _)
SkipLine(buf, p) ==
    IF p >= Len(buf) THEN p
    ELSE IF buf[p + 1] = "NL" THEN p + 1
    ELSE SkipLine(buf, p + 1)

StreamIgnoreLn(s) ==
    IF ~Good(s) THEN [s EXCEPT !.fail = TRUE]
    ELSE LET q == SkipLine(s.buf, s.pos) IN
         IF q >= Len(s.buf) /\ (q = s.pos \/ s.buf[q] # "NL")
         THEN [s EXCEPT !.pos = q, !.eof = TRUE]
         ELSE [s EXCEPT !.pos = q]

(***************************************************************************)
(* Cell_stream.                                                            *)
(***************************************************************************)
\* the token that starts with the character c just read from stream s
\* (s is the stream after get(c)); returns the stream and ct
LexToken(s, c, ct) ==
    IF c \in SingleChars THEN [s |-> s, ct |-> CellK(CharKind(c))]
    ELSE IF IsDigit(c) THEN
        LET s1 == StreamPutback(s)
            e == DigitsEnd(s1.buf, s1.pos)
        IN  [s |-> [s1 EXCEPT !.pos = e, !.eof = (e >= Len(s1.buf))],
             ct |-> CellNum(DecValue(SubSeq(s1.buf, s1.pos + 1, e)))]
    ELSE
        LET s1 == StreamPutback(s)
            e == WordEnd(s1.buf, s1.pos)
            word == SubSeq(s1.buf, s1.pos + 1, e)
            temp == StripRp(word)
            back == Len(word) - Len(temp)
            s2 == [s1 EXCEPT !.pos = e - back,
                             !.eof = (e >= Len(s1.buf) /\ back = 0)]
        IN  IF c \in KeywordLetters /\ IsKeyword(temp)
            THEN [s |-> s2, ct |-> [ct EXCEPT !.kind = KeywordKind(temp)]]
            ELSE [s |-> s2, ct |-> CellStr(temp)]

\* Cell_stream::get on stream s with current token ct
RECURSIVE LexGet(_, _)
LexGet(s, ct) ==
    LET s1 == StreamGet(s) IN
    IF s1.fail THEN [s |-> s1, ct |-> CellK("End")]
    ELSE LET c == s1.buf[s1.pos] IN
         IF IsSpace(c) THEN LexGet(s1, ct) ELSE LexToken(s1, c, ct)

\* cs.get(): reads from the active stream
Get(c) ==
    LET r == LexGet(c.streams[c.ip], c.ct) IN
    [c EXCEPT !.streams[c.ip] = r.s, !.ct = r.ct]

\* cs.ignoreln()
IgnoreLn(c) == [c EXCEPT !.streams[c.ip] = StreamIgnoreLn(@)]

\* cs.eof()
Eof(c) == c.streams[c.ip].eof

\* cs.base()
Base(c) == Len(c.old) = 0

(***************************************************************************)
(* Parser: expr(getfirst).  A result is [st, msg, list, cs].               *)
(***************************************************************************)
\* an expr that does not require the ')' after a nested expression
RECURSIVE exprLoop_Unchecked(_, _)
exprLoop_Unchecked(c, res) ==
    LET c1 == Get(c) IN
    CASE c1.ct.kind = "Lp" ->
            LET r == exprLoop_Unchecked(c1, <<>>) IN
            exprLoop_Unchecked(r.cs, Append(res, CellList(r.list)))
      [] c1.ct.kind \in {"End", "Rp"} ->
            [st |-> "ok", msg |-> "", list |-> res, cs |-> c1]
      [] c1.ct.kind = "Comment" -> exprLoop_Unchecked(IgnoreLn(c1), res)
      [] OTHER -> exprLoop_Unchecked(c1, Append(res, c1.ct))

RECURSIVE exprLoop(_, _)
exprLoop(c, res) ==
    LET c1 == Get(c) IN
    CASE c1.ct.kind = "Lp" ->
            LET r == exprLoop(c1, <<>>) IN
            IF r.st # "ok" THEN r
            ELSE IF r.cs.ct.kind # "Rp"
                 THEN [st |-> "err", msg |-> "')' expected", list |-> <<>>, cs |-> r.cs]
                 ELSE exprLoop(r.cs, Append(res, CellList(r.list)))
      [] c1.ct.kind \in {"End", "Rp"} ->
            [st |-> "ok", msg |-> "", list |-> res, cs |-> c1]
      [] c1.ct.kind = "Comment" -> exprLoop(IgnoreLn(c1), res)
      [] OTHER -> exprLoop(c1, Append(res, c1.ct))

\* while (getfirst && cs.get().kind == Kind::Comment) cs.ignoreln();
RECURSIVE eatFirst(_)
eatFirst(c) ==
    LET c1 == Get(c) IN
    IF c1.ct.kind = "Comment" THEN eatFirst(IgnoreLn(c1)) ELSE c1

expr(getfirst, c) == exprLoop(IF getfirst THEN eatFirst(c) ELSE c, <<>>)

(***************************************************************************)
(* Env: a frame is [env, outer, live, store]; a handle indexes frames and  *)
(* 0 is nullptr.  Handle 1 is e0; store is "global", "heap" (the envs      *)
(* arena) or "stack" (the localenv of a let, dead once the let is left).   *)
(***************************************************************************)
MkFrame(o, st) == [env |-> <<>>, outer |-> o, live |-> TRUE, store |-> st]

\* map::operator[] followed by an assignment
Put(m, n, v) == [x \in (DOMAIN m) \cup {n} |-> IF x = n THEN v ELSE m[x]]

\* map::operator[] alone: inserts a default Cell when the key is absent
Touch(m, n) == IF n \in DOMAIN m THEN m ELSE Put(m, n, CellK("End"))

\* Env::findframe: the handle of the frame holding n, 0 when none does
\* ("Unbound variable"), -1 when the walk reads a destroyed frame
RECURSIVE findframe(_, _, _)
findframe(fs, h, n) ==
    IF ~fs[h].live THEN -1
    ELSE IF n \in DOMAIN fs[h].env THEN h
    ELSE IF fs[h].outer # 0 THEN findframe(fs, fs[h].outer, n)
    ELSE 0

(***************************************************************************)
(* Results of eval, evlist, apply, apply_prim: [st, val, vals, msg, how,   *)
(* pos, S].                                                                *)
(* st is "ok", "err" (an exception is in flight) or "ub" (the code has     *)
(* read outside an object); S is the interpreter state [frames, procs, cs].*)
(***************************************************************************)
Ok(v, S) == [st |-> "ok", val |-> v, vals |-> <<>>, msg |-> "", how |-> "", pos |-> 0, S |-> S]

OkL(l, S) == [st |-> "ok", val |-> CellK("End"), vals |-> l, msg |-> "", how |-> "", pos |-> 0, S |-> S]

Err(m, S) == [st |-> "err", val |-> CellK("End"), vals |-> <<>>, msg |-> m, how |-> "", pos |-> 0, S |-> S]

UB(S) == [st |-> "ub", val |-> CellK("End"), vals |-> <<>>, msg |-> "", how |-> "", pos |-> 0, S |-> S]

BadGet == "boost::bad_get"

\* a lookup that reads the global frame only
lookup_Global(env, n, S) ==
    IF n \in DOMAIN S.frames[1].env THEN Ok(S.frames[1].env[n], S)
    ELSE Err("Unbound variable", S)

\* Env::lookup
lookup(env, n, S) ==
    LET h == findframe(S.frames, env, n) IN
    IF h = -1 THEN UB(S)
    ELSE IF h = 0 THEN Err("Unbound variable", S)
    ELSE Ok(S.frames[h].env[n], S)

\* an assignment that writes into the global frame whatever the current one
EnvAssign_Global(env, n, v, S) == [S EXCEPT !.frames[1].env = Put(@, n, v)]

\* (*env)[n] = v
EnvAssign(env, n, v, S) == [S EXCEPT !.frames[env].env = Put(@, n, v)]

\* (*env)[n], evaluated before the right-hand side
EnvTouch(env, n, S) == [S EXCEPT !.frames[env].env = Touch(@, n)]

\* procs.push_back({params, body, env}); &procs.back()
PushProc(params, body, env, S) ==
    [S EXCEPT !.procs = Append(@, [params |-> params, body |-> body, env |-> env])]

(***************************************************************************)
(* Files holding one top-level expression, generated from its tree: an     *)
(* item is an atom [a |-> chars] or a group [g |-> items].                 *)
(***************************************************************************)
Atom(s) == [a |-> s]

Group(items) == [g |-> items]

Atoms == {<<"+">>, <<"1">>, <<"x">>, <<"c", "a", "r">>}

InnerItems == {Atom(<<"+">>), Atom(<<"x">>), Group(<<>>), Group(<<Atom(<<"1">>)>>)}

Groups == {<<>>} \cup {<<i>> : i \in InnerItems} \cup {<<i, j>> : i, j \in InnerItems}

Items == {Atom(a) : a \in Atoms} \cup {Group(g) : g \in Groups}

Trees ==
    {<<>>} \cup {<<i>> : i \in Items} \cup {<<Atom(<<"+">>), i, Atom(<<"1">>)>> : i \in Items}

\* the trees that are also written with a comment and with a second expression
VariedTrees ==
    {<<>>, <<Atom(<<"c", "a", "r">>)>>,
     <<Atom(<<"+">>), Group(<<Atom(<<"x">>), Group(<<Atom(<<"1">>)>>)>>), Atom(<<"1">>)>>}

\* the text of a sequence of items: separated by one space, groups in parentheses
RECURSIVE Render(_)
Render(items) ==
    IF Len(items) = 0 THEN <<>>
    ELSE LET h == items[1]
             t == IF "a" \in DOMAIN h THEN h.a ELSE <<"(">> \o Render(h.g) \o <<")">>
         IN  IF Len(items) = 1 THEN t ELSE t \o <<" ">> \o Render(Tail(items))

\* comment is "none", "start" (a comment line before the expression) or
\* "inside" (a comment after the opening parenthesis); rest: a second
\* expression follows on the same line
ParseInputs ==
    [tree : Trees, comment : {"none"}, rest : {FALSE}]
        \cup [tree : VariedTrees, comment : {"none", "start", "inside"}, rest : BOOLEAN]

\* the text up to the parenthesis that closes the expression
ParseMatched(i) ==
    (IF i.comment = "start" THEN <<";", " ", "k", "NL">> ELSE <<>>)
        \o <<"(">>
        \o (IF i.comment = "inside" THEN <<";", " ", ")", "NL">> ELSE <<>>)
        \o Render(i.tree) \o <<")">>

ParseText(i) == ParseMatched(i) \o (IF i.rest THEN <<" ", "(", "1", ")">> ELSE <<>>)

\* texts that end inside a nested group:  (x (1   and   (+ (x (1)
OpenTexts ==
    {<<"(", "x", " ", "(", "1">>, <<"(", "+", " ", "(", "x", " ", "(", "1", ")">>}

\* the name of the file that holds the text t
ParseName(t) == <<"p", ":">> \o t

ParseFiles == {ParseName(ParseText(i)) : i \in ParseInputs} \cup {ParseName(t) : t \in OpenTexts}

\* cs.set_input(new ifstream{name})
Files ==
    [n \in {<<"l","i","b">>, <<"b","a","d">>, <<"n","i","l">>} \cup ParseFiles |->
        IF n = <<"l","i","b">>
        THEN <<"(","d","e","f","i","n","e"," ","y"," ","2",")","NL">>
        ELSE IF n = <<"b","a","d">>
        THEN <<"(","+"," ","z"," ","1",")","NL",
               "(","d","e","f","i","n","e"," ","y"," ","2",")","NL">>
        ELSE IF n = <<"n","i","l">>
        THEN <<"(",")","NL",
               "(","d","e","f","i","n","e"," ","y"," ","2",")","NL">>
        ELSE SubSeq(n, 3, Len(n))]

OpenFile(name) ==
    IF name \in DOMAIN Files THEN MkStream(Files[name], FALSE) ELSE MkStream(<<>>, TRUE)

SetInputOwned(name, S) ==
    LET id == Len(S.cs.streams) + 1 IN
    [S EXCEPT !.cs.streams = Append(@, OpenFile(name)),
              !.cs.old = Append(@, S.cs.ip),
              !.cs.ip = id,
              !.cs.owns = Append(@, id)]

\* a set_input that records the previous stream but goes on reading from it
SetInput_NoSwitch(text, c) ==
    [c EXCEPT !.streams = Append(@, MkStream(text, FALSE)),
              !.old = Append(@, c.ip)]

\* istringstream in(input); cs.set_input(in)
SetInput(text, c) ==
    [c EXCEPT !.streams = Append(@, MkStream(text, FALSE)),
              !.old = Append(@, c.ip),
              !.ip = Len(c.streams) + 1]

(***************************************************************************)
(* Primitive procedures.                                                   *)
(***************************************************************************)
Ascii == <<"!", "&", "'", "(", ")", "*", "+", "-", "/",
           "0", "1", "2", "3", "4", "5", "6", "7", "8", "9",
           ";", "<", "=", ">", "?",
           "a", "b", "c", "d", "e", "f", "g", "h", "i", "j", "k", "l", "m",
           "n", "o", "p", "q", "r", "s", "t", "u", "v", "w", "x", "y", "z", "|">>

CharCode(c) == CHOOSE i \in 1..Len(Ascii) : Ascii[i] = c

\* std::string operator<
RECURSIVE StrLess(_, _)
StrLess(a, b) ==
    IF Len(b) = 0 THEN FALSE
    ELSE IF Len(a) = 0 THEN TRUE
    ELSE IF a[1] = b[1] THEN StrLess(Tail(a), Tail(b))
    ELSE CharCode(a[1]) < CharCode(b[1])

\* less_visitor built from the double d (num = d; str and list empty, proc not set)
LessNum(d, c, S) ==
    CASE c.tag = "string" -> Ok(CellBool(Len(c.str) > 0), S)
      [] c.tag = "double" -> Ok(CellBool(d < c.num), S)
      [] c.tag = "list" -> Ok(CellBool(Len(c.list) > 0), S)
      [] OTHER -> UB(S)

\* less_visitor built from the string s (str = s; list empty, num and proc not set)
LessStr(s, c, S) ==
    CASE c.tag = "string" -> Ok(CellBool(StrLess(s, c.str)), S)
      [] c.tag = "list" -> Ok(CellBool(Len(c.list) > 0), S)
      [] OTHER -> UB(S)

\* equal_visitor built from the double d
EqualNum(d, c, S) ==
    CASE c.tag = "string" -> Ok(CellBool(Len(c.str) = 0), S)
      [] c.tag = "double" -> Ok(CellBool(d = c.num), S)
      [] c.tag = "list" -> Ok(CellBool(Len(c.list) = 0), S)
      [] OTHER -> UB(S)

\* equal_visitor built from the string s
EqualStr(s, c, S) ==
    CASE c.tag = "string" -> Ok(CellBool(s = c.str), S)
      [] c.tag = "list" -> Ok(CellBool(Len(c.list) = 0), S)
      [] OTHER -> UB(S)

\* the left fold of + - * / over doubles (the inputs never divide by zero)
RECURSIVE FoldNum(_, _, _, _)
FoldNum(k, acc, args, p) ==
    IF p > Len(args) THEN acc
    ELSE FoldNum(k, CASE k = "Add" -> acc + args[p].num
                      [] k = "Sub" -> acc - args[p].num
                      [] k = "Mul" -> acc * args[p].num
                      [] OTHER -> IF args[p].num = 0 THEN 0 ELSE acc \div args[p].num,
                 args, p + 1)

RECURSIVE FoldCat(_, _, _)
FoldCat(acc, args, p) ==
    IF p > Len(args) THEN acc ELSE FoldCat(acc \o args[p].str, args, p + 1)

AllTag(args, t) == \A i \in 1..Len(args) : args[i].tag = t

\* the first argument of kind k, if any
FirstOfKind(args, k) ==
    IF \E i \in 1..Len(args) : args[i].kind = k
    THEN args[CHOOSE i \in 1..Len(args) :
                 args[i].kind = k /\ \A j \in 1..(i - 1) : args[j].kind # k]
    ELSE CellK(IF k = "False" THEN "True" ELSE "False")

\* case Kind::Not
NotPrim(a) == CellK(IF a.kind = "False" THEN "True" ELSE "False")

apply_prim(prim, args, S) ==
    LET k == prim.kind
        n == Len(args)
    IN
    CASE k \in {"Add", "Sub", "Mul", "Div"} ->
            IF n = 0 THEN UB(S)
            ELSE IF ~AllTag(args, "double") THEN Err(BadGet, S)
            ELSE Ok(CellNum(FoldNum(k, args[1].num, args, 2)), S)
      [] k = "Cat" ->
            IF n = 0 THEN UB(S)
            ELSE IF ~AllTag(args, "string") THEN Err(BadGet, S)
            ELSE Ok(CellStr(FoldCat(args[1].str, args, 2)), S)
      [] k = "Less" ->
            IF n = 0 THEN UB(S)
            ELSE IF args[1].kind = "Number"
                 THEN IF n < 2 THEN UB(S) ELSE LessNum(args[1].num, args[2], S)
            ELSE IF args[1].tag # "string" THEN Err(BadGet, S)
            ELSE IF n < 2 THEN UB(S) ELSE LessStr(args[1].str, args[2], S)
      [] k = "Equal" ->
            IF n = 0 THEN UB(S)
            ELSE IF args[1].kind = "Number"
                 THEN IF n < 2 THEN UB(S) ELSE EqualNum(args[1].num, args[2], S)
            ELSE IF args[1].tag # "string" THEN Err(BadGet, S)
            ELSE IF n < 2 THEN UB(S) ELSE EqualStr(args[1].str, args[2], S)
      [] k = "Empty" ->
            IF n = 0 THEN UB(S)
            ELSE IF args[1].kind = "Expr" THEN Ok(CellBool(Len(args[1].list) = 0), S)
            ELSE Ok(CellK("False"), S)
      [] k = "Greater" ->
            IF n < 2 THEN UB(S)
            ELSE IF args[2].kind = "Number" THEN LessNum(args[2].num, args[1], S)
            ELSE IF args[2].tag # "string" THEN Err(BadGet, S)
            ELSE LessStr(args[2].str, args[1], S)
      [] k = "And" -> Ok(FirstOfKind(args, "False"), S)
      [] k = "Or" -> Ok(FirstOfKind(args, "True"), S)
      [] k = "Not" -> IF n = 0 THEN UB(S) ELSE Ok(NotPrim(args[1]), S)
      [] k \in {"List", "Cons"} -> Ok(CellList(args), S)
      [] k = "Car" ->
            IF n = 0 THEN UB(S)
            ELSE IF args[1].kind # "Expr" THEN Ok(args[1], S)
            ELSE IF Len(args[1].list) = 0 THEN UB(S)
            ELSE Ok(args[1].list[1], S)
      [] k = "Cdr" ->
            IF n = 0 THEN UB(S)
            ELSE IF args[1].kind # "Expr" THEN Ok(CellList(<<>>), S)
            ELSE LET list == args[1].list IN
                 IF Len(list) = 1 THEN Ok(CellList(<<>>), S)
                 ELSE IF Len(list) = 2 THEN Ok(list[2], S)
                 ELSE IF Len(list) = 0 THEN UB(S)
                 ELSE Ok(CellList(Tail(list)), S)
      [] OTHER -> Err("Mismatoh in apply_prim", S)

Primitives == {"Add", "Sub", "Mul", "Div", "Less", "Greater", "Equal", "Cat", "Cons",
               "Car", "Cdr", "List", "And", "Or", "Not", "Empty"}

(***************************************************************************)
(* The evaluator.  xs is the List expr; positions are 1-based: p is the    *)
(* index of *p, and p = Len(xs) + 1 is expr.end().                         *)
(***************************************************************************)
\* an else branch that takes the else clause wherever it stands
ElseAtEnd_Anywhere(p, n) == TRUE

\* p + 1 == expr.end() in the else branch of the cond loop
ElseAtEnd(p, n) == p = n

\* an Expr case that never unwraps
Unwrap_Never(vals) == CellList(vals)

\* the Expr cases: if (res.size() == 1) return {res[0]}; return {res};
Unwrap(vals) == IF Len(vals) = 1 THEN vals[1] ELSE CellList(vals)

\* a let that evaluates the value of a pair in its own frame (let*)
LetValueEnv_Local(env, localenv) == localenv

\* the environment in which a let evaluates the value of a pair
LetValueEnv(env, localenv) == env

\* Env localenv {env}: a frame on the stack
PushLocal(env, S) == [S EXCEPT !.frames = Append(@, MkFrame(env, "stack"))]

\* the end of localenv's scope, by return or by exception
LeaveLocal(h, r) == [r EXCEPT !.S.frames[h].live = FALSE]

\* Parser::bind, up to the push onto envs; a result's val.num is the new handle
RECURSIVE bindLoop(_, _, _, _)
bindLoop(params, args, i, m) ==
    IF i > Len(params) THEN m
    ELSE bindLoop(params, args, i + 1, Put(m, params[i].str, args[i]))

\* a bind that does not compare the lengths and binds nothing
bind_Unchecked(params, args, env, S) ==
    LET S1 == [S EXCEPT !.frames = Append(@, MkFrame(env, "heap"))]
    IN  Ok(CellNum(Len(S1.frames)), S1)

bind(params, args, env, S) ==
    IF Len(params) # Len(args) THEN Err("# of args provided and expected mismatch", S)
    ELSE IF ~AllTag(params, "string") THEN Err(BadGet, S)
    ELSE LET newenv == [MkFrame(env, "heap") EXCEPT !.env = bindLoop(params, args, 1, <<>>)]
             S1 == [S EXCEPT !.frames = Append(@, newenv)]
         IN  Ok(CellNum(Len(S1.frames)), S1)

\* The evaluator's procedures call one another through Run, which resolves a
\* call to the procedure named by its first element.
RECURSIVE Run(_)
Call_eval(xs, env, S) == Run(<<"eval", xs, env, S>>)

Call_evlistFrom(xs, p, res, env, S) == Run(<<"evlistFrom", xs, p, res, env, S>>)

Call_evlist(xs, env, S) == Run(<<"evlistFrom", xs, 1, <<>>, env, S>>)

Call_apply(c, args, S) == Run(<<"apply", c, args, S>>)

Call_condLoop(xs, p, env, S) == Run(<<"condLoop", xs, p, env, S>>)

Call_letPairs(localvars, i, env, h, S) == Run(<<"letPairs", localvars, i, env, h, S>>)

Call_letForm(xs, env, S) == Run(<<"letForm", xs, env, S>>)

Call_defineForm(xs, env, S) == Run(<<"defineForm", xs, env, S>>)

Call_collectArgs(xs, p, args, env, S) == Run(<<"collectArgs", xs, p, args, env, S>>)

Call_nameForm(xs, p, env, S) == Run(<<"nameForm", xs, p, env, S>>)

\* Cell apply(const Cell& c, const List& args)
apply(c, args, S) ==
    IF c.tag # "proc" THEN Err(BadGet, S)
    ELSE LET proc == S.procs[c.proc]
             b == bind(proc.params, args, proc.env, S)
         IN  IF b.st # "ok" THEN b ELSE Call_eval(proc.body, b.val.num, b.S)

\* the while loop of case Kind::Cond, entered with p on the clause to try;
\* how is "else" or "pred" for the clause taken and pos its position, st is
\* "nomatch" when the loop runs off the end
condLoop(xs, p, env, S) ==
    IF p > Len(xs) THEN [Ok(CellK("End"), S) EXCEPT !.st = "nomatch"]
    ELSE IF xs[p].tag # "list" THEN Err(BadGet, S)
    ELSE LET clause == xs[p].list IN
         IF Len(clause) = 0 THEN UB(S)
         ELSE IF clause[1].kind = "Else" THEN
             IF ElseAtEnd(p, Len(xs))
             THEN IF Len(clause) < 2 THEN UB(S)
                  ELSE [Call_eval(<<clause[2]>>, env, S) EXCEPT !.how = "else", !.pos = p]
             ELSE Err("Else clause not at end of condition", S)
         ELSE LET r == Call_eval(<<clause[1]>>, env, S) IN
              IF r.st # "ok" THEN r
              ELSE IF Truthy(r.val)
                   THEN IF Len(clause) < 2 THEN UB(r.S)
                        ELSE [Call_eval(<<clause[2]>>, env, r.S) EXCEPT !.how = "pred", !.pos = p]
                   ELSE Call_condLoop(xs, p + 1, env, r.S)

\* the for loop over localvars of case Kind::Let; h is the handle of localenv
letPairs(localvars, i, env, h, S) ==
    IF i > Len(localvars) THEN Ok(CellK("End"), S)
    ELSE LET pair == localvars[i] IN
         IF pair.tag # "list" THEN Err(BadGet, S)
         ELSE IF Len(pair.list) = 0 THEN UB(S)
         ELSE IF pair.list[1].tag # "string" THEN Err(BadGet, S)
         ELSE IF Len(pair.list) < 2 THEN UB(S)
         ELSE LET val == Call_eval(<<pair.list[2]>>, LetValueEnv(env, h), S) IN
              IF val.st # "ok" THEN val
              ELSE Call_letPairs(localvars, i + 1, env, h,
                            EnvAssign(h, pair.list[1].str, val.val, val.S))

\* case Kind::Let, the same in eval and evlist; expr[1] is the Let cell
letForm(xs, env, S) ==
    IF Len(xs) < 3 THEN Err("Let expects a list of definitions and a body", S)
    ELSE IF xs[2].tag # "list" THEN Err(BadGet, S)
    ELSE LET S1 == PushLocal(env, S)
             h == Len(S1.frames)
             b == Call_letPairs(xs[2].list, 1, env, h, S1)
         IN  IF b.st # "ok" THEN LeaveLocal(h, b)
             ELSE IF xs[3].kind = "Expr"
                  THEN LeaveLocal(h, Call_eval(xs[3].list, h, b.S))
                  ELSE LeaveLocal(h, Call_eval(<<xs[3]>>, h, b.S))

\* case Kind::Define, the same in eval and evlist; expr[1] is the Define cell
defineForm(xs, env, S) ==
    IF Len(xs) < 3 THEN Err("Malformed define expression", S)
    ELSE LET np == xs[2] IN
         IF np.kind = "Name" THEN
             IF lhsFirst /\ ~S.frames[env].live THEN UB(S)
             ELSE LET S0 == IF lhsFirst THEN EnvTouch(env, np.str, S) ELSE S
                      r == Call_eval(SubSeq(xs, 3, Len(xs)), env, S0)
                  IN  IF r.st # "ok" THEN r
                      ELSE IF ~r.S.frames[env].live THEN UB(r.S)
                      ELSE Ok(r.val, EnvAssign(env, np.str, r.val, r.S))
         ELSE IF np.kind = "Expr" THEN
             LET declaration == np.list IN
             IF Len(declaration) = 0 THEN UB(S)
             ELSE IF declaration[1].tag # "string" THEN Err(BadGet, S)
             ELSE IF xs[3].tag # "list" THEN Err(BadGet, S)
             ELSE IF ~S.frames[env].live THEN UB(S)
             ELSE LET S1 == PushProc(Tail(declaration), xs[3].list, env, S)
                      v == CellProc(Len(S1.procs))
                  IN  Ok(v, EnvAssign(env, declaration[1].str, v, S1))
         ELSE Err("Unfamiliar form to define", S)

\* the while loop of case Kind::Name; entered with p on the head Name
collectArgs(xs, p, args, env, S) ==
    IF p + 1 > Len(xs) THEN OkL(args, S)
    ELSE LET q == p + 1
             c == xs[q]
         IN
         CASE c.kind = "Number" -> Call_collectArgs(xs, q, Append(args, c), env, S)
           [] c.kind = "Quote" ->
                 IF q + 1 > Len(xs) THEN UB(S)
                 ELSE Call_collectArgs(xs, q + 1, Append(args, xs[q + 1]), env, S)
           [] c.kind = "Name" ->
                 LET x == lookup(env, c.str, S) IN
                 IF x.st # "ok" THEN x
                 ELSE Call_collectArgs(xs, q, Append(args, x.val), env, S)
           [] OTHER ->
                 LET addargs == Call_evlist(SubSeq(xs, q, Len(xs)), env, S) IN
                 IF addargs.st # "ok" THEN addargs
                 ELSE OkL(args \o addargs.vals, addargs.S)

\* case Kind::Name: how is "var" for a variable, "call" for an application
nameForm(xs, p, env, S) ==
    LET x == lookup(env, xs[p].str, S) IN
    IF x.st # "ok" THEN x
    ELSE IF x.val.kind # "Proc" THEN [x EXCEPT !.how = "var"]
    ELSE LET args == Call_collectArgs(xs, p, <<>>, env, S) IN
         IF args.st # "ok" THEN args
         ELSE [Call_apply(x.val, args.vals, args.S) EXCEPT !.how = "call"]

\* Cell eval(const List& expr, Env* env)
eval(xs, env, S) ==
    IF Len(xs) = 0 THEN Ok(CellK("End"), S)
    ELSE
    LET h == xs[1]
        n == Len(xs)
    IN
    CASE h.kind = "Include" ->
            IF n < 2 THEN UB(S)
            ELSE IF xs[2].tag # "string" THEN Err(BadGet, S)
            ELSE Ok(CellK("Include"), SetInputOwned(xs[2].str, S))
      [] h.kind = "Number" -> Ok(h, S)
      [] h.kind = "Quote" ->
            IF n = 1 THEN Err("Quote expects 1 arg", S) ELSE Ok(xs[2], S)
      [] h.kind = "Begin" ->
            IF n = 1 THEN UB(S)
            ELSE LET r == Call_evlist(SubSeq(xs, 2, n - 1), env, S) IN
                 IF r.st # "ok" THEN r ELSE Call_eval(<<xs[n]>>, env, r.S)
      [] h.kind = "Lambda" ->
            IF n < 3 THEN Err("Malformed lambda expression", S)
            ELSE IF xs[2].tag # "list" \/ xs[3].tag # "list" THEN Err(BadGet, S)
            ELSE LET S1 == PushProc(xs[2].list, xs[3].list, env, S) IN
                 Ok(CellProc(Len(S1.procs)), S1)
      [] h.kind = "Define" -> Call_defineForm(xs, env, S)
      [] h.kind = "Expr" ->
            LET res == Call_evlist(h.list, env, S) IN
            IF res.st # "ok" THEN res
            ELSE Ok(Unwrap(res.vals), res.S)
      [] h.kind = "Let" -> Call_letForm(xs, env, S)
      [] h.kind = "Cond" ->
            LET r == Call_condLoop(xs, 2, env, S) IN
            \* no match: control falls into the primitive case with p == expr.end()
            IF r.st = "nomatch" THEN UB(r.S) ELSE r
      [] h.kind \in Primitives ->
            IF n = 1 THEN Err("Primitives take at least one argument", S)
            ELSE LET args == Call_evlist(SubSeq(xs, 2, n), env, S) IN
                 IF args.st # "ok" THEN args
                 ELSE apply_prim(h, args.vals, args.S)
      [] h.kind = "Name" -> Call_nameForm(xs, 1, env, S)
      [] OTHER -> Err("Unmatched cell in eval", S)

\* List evlist(const List& expr, Env* env): the for loop with p and res
evlistFrom(xs, p, res, env, S) ==
    IF p > Len(xs) THEN OkL(res, S)
    ELSE
    LET c == xs[p]
        n == Len(xs)
    IN
    CASE c.kind = "Include" ->
            IF p + 1 > n THEN UB(S)
            ELSE IF xs[p + 1].tag # "string" THEN Err(BadGet, S)
            ELSE OkL(<<>>, SetInputOwned(xs[p + 1].str, S))
      [] c.kind = "Number" -> Call_evlistFrom(xs, p + 1, Append(res, c), env, S)
      [] c.kind = "Quote" ->
            IF p + 1 > n THEN Err("Quote expects 1 arg", S)
            ELSE Call_evlistFrom(xs, p + 2, Append(res, xs[p + 1]), env, S)
      [] c.kind = "Begin" ->
            IF p + 1 > n THEN UB(S)
            ELSE LET r == Call_evlist(SubSeq(xs, p + 1, n - 1), env, S) IN
                 IF r.st # "ok" THEN r
                 ELSE LET v == Call_eval(<<xs[n]>>, env, r.S) IN
                      IF v.st # "ok" THEN v ELSE OkL(Append(res, v.val), v.S)
      [] c.kind = "Lambda" ->
            IF p + 2 > n THEN Err("Malformed lambda expression", S)
            ELSE IF xs[p + 1].tag # "list" \/ xs[p + 2].tag # "list" THEN Err(BadGet, S)
            ELSE LET S1 == PushProc(xs[p + 1].list, xs[p + 2].list, env, S) IN
                 Call_evlistFrom(xs, p + 3, Append(res, CellProc(Len(S1.procs))), env, S1)
      [] c.kind = "Define" ->
            LET r == Call_defineForm(SubSeq(xs, p, n), env, S) IN
            IF r.st # "ok" THEN r ELSE OkL(Append(res, r.val), r.S)
      [] c.kind = "Expr" ->
            LET r == Call_evlist(c.list, env, S) IN
            IF r.st # "ok" THEN r
            ELSE Call_evlistFrom(xs, p + 1, Append(res, Unwrap(r.vals)), env, r.S)
      [] c.kind = "Let" ->
            LET r == Call_letForm(SubSeq(xs, p, n), env, S) IN
            IF r.st # "ok" THEN r ELSE OkL(Append(res, r.val), r.S)
      [] c.kind = "Cond" ->
            LET r == Call_condLoop(xs, p + 1, env, S) IN
            \* no match: break leaves p == expr.end() and the for loop's ++p
            \* steps past it
            IF r.st = "nomatch" THEN UB(r.S)
            ELSE IF r.st # "ok" THEN r
            ELSE IF r.how = "else" THEN OkL(Append(res, r.val), r.S)
            \* a predicate was taken: break leaves p on its clause and the for
            \* loop goes on with the cell after it
            ELSE Call_evlistFrom(xs, r.pos + 1, Append(res, r.val), env, r.S)
      [] c.kind \in Primitives ->
            IF p + 1 > n THEN Err("Primitives take at least one argument", S)
            ELSE LET args == Call_evlist(SubSeq(xs, p + 1, n), env, S) IN
                 IF args.st # "ok" THEN args
                 ELSE LET v == apply_prim(c, args.vals, args.S) IN
                      IF v.st # "ok" THEN v ELSE OkL(Append(res, v.val), v.S)
      [] c.kind = "Name" ->
            LET r == Call_nameForm(xs, p, env, S) IN
            IF r.st # "ok" THEN r
            ELSE IF r.how = "var" THEN Call_evlistFrom(xs, p + 1, Append(res, r.val), env, r.S)
            ELSE OkL(Append(res, r.val), r.S)
      [] OTHER -> Err("Unmatched in evlist", S)

\* the procedure call
Run(t) ==
    CASE t[1] = "eval" -> eval(t[2], t[3], t[4])
      [] t[1] = "evlistFrom" -> evlistFrom(t[2], t[3], t[4], t[5], t[6])
      [] t[1] = "apply" -> apply(t[2], t[3], t[4])
      [] t[1] = "condLoop" -> condLoop(t[2], t[3], t[4], t[5])
      [] t[1] = "letPairs" -> letPairs(t[2], t[3], t[4], t[5], t[6])
      [] t[1] = "letForm" -> letForm(t[2], t[3], t[4])
      [] t[1] = "defineForm" -> defineForm(t[2], t[3], t[4])
      [] t[1] = "collectArgs" -> collectArgs(t[2], t[3], t[4], t[5], t[6])
      [] t[1] = "nameForm" -> nameForm(t[2], t[3], t[4], t[5])

\* eval(expr, env) and evlist(expr, env) as the loop and the properties call them
Eval(xs, env, S) == Run(<<"eval", xs, env, S>>)

Evlist(xs, env, S) == Run(<<"evlistFrom", xs, 1, <<>>, env, S>>)

(***************************************************************************)
(* The texts typed at the prompt.  Each suite is a set of lines a session  *)
(* draws from; the structured inputs are built from their parts so that a  *)
(* property can speak about the parts.                                     *)
(***************************************************************************)
\* a text between parentheses, and texts separated by one blank
Par(t) == <<"(">> \o t \o <<")">>

Sp(a, b) == a \o <<" ">> \o b

RECURSIVE Words(_)
Words(ws) == IF Len(ws) = 1 THEN ws[1] ELSE Sp(ws[1], Words(Tail(ws)))

\* the number of lines typed in one session
MaxSteps == 3

\* (define x 1)
T_DefX ==
    <<"(", "d", "e", "f", "i", "n", "e", " ", "x", " ", "1", ")">>

\* (define f (let ((x 2)) (lambda () (+ x 0))))
T_DefFLet ==
    <<"(", "d", "e", "f", "i", "n", "e", " ", "f", " ", "(", "l", "e", "t", " ", "(", "(", "x",
      " ", "2", ")", ")", " ", "(", "l", "a", "m", "b", "d", "a", " ", "(", ")", " ", "(", "+",
      " ", "x", " ", "0", ")", ")", ")", ")">>

\* (f)
T_CallF ==
    <<"(", "f", ")">>

\* (define (mk x) (lambda () (+ x 0)))
T_DefMk ==
    <<"(", "d", "e", "f", "i", "n", "e", " ", "(", "m", "k", " ", "x", ")", " ", "(", "l", "a",
      "m", "b", "d", "a", " ", "(", ")", " ", "(", "+", " ", "x", " ", "0", ")", ")", ")">>

\* (define g (mk 3))
T_DefG ==
    <<"(", "d", "e", "f", "i", "n", "e", " ", "g", " ", "(", "m", "k", " ", "3", ")", ")">>

\* (let ((x 9)) (g))
T_CallGLet ==
    <<"(", "l", "e", "t", " ", "(", "(", "x", " ", "9", ")", ")", " ", "(", "g", ")", ")">>

\* (+ (define z 1) q)
T_FailArg ==
    <<"(", "+", " ", "(", "d", "e", "f", "i", "n", "e", " ", "z", " ", "1", ")", " ", "q", ")">>

\* (list (define v 1) (car))
T_FailList ==
    <<"(", "l", "i", "s", "t", " ", "(", "d", "e", "f", "i", "n", "e", " ", "v", " ", "1", ")",
      " ", "(", "c", "a", "r", ")", ")">>

\* (define z 5)
T_DefZ ==
    <<"(", "d", "e", "f", "i", "n", "e", " ", "z", " ", "5", ")">>

\* (+ z 1)
T_AddZ ==
    <<"(", "+", " ", "z", " ", "1", ")">>

\* (include lib)
T_Include ==
    <<"(", "i", "n", "c", "l", "u", "d", "e", " ", "l", "i", "b", ")">>

\* (define a 1)
T_DefA ==
    <<"(", "d", "e", "f", "i", "n", "e", " ", "a", " ", "1", ")">>

\* else
W_else ==
    <<"e", "l", "s", "e">>

\* cond
W_cond ==
    <<"c", "o", "n", "d">>

\* let
W_let ==
    <<"l", "e", "t">>

\* not
W_not ==
    <<"n", "o", "t">>

\* !
W_bang ==
    <<"!">>

\* begin
W_begin ==
    <<"b", "e", "g", "i", "n">>

\* (< 2 1)
X_lt21 ==
    <<"(", "<", " ", "2", " ", "1", ")">>

\* (= 1 1)
X_eq11 ==
    <<"(", "=", " ", "1", " ", "1", ")">>

\* (= 1 2)
X_eq12 ==
    <<"(", "=", " ", "1", " ", "2", ")">>

\* (define w 7)
X_defw ==
    <<"(", "d", "e", "f", "i", "n", "e", " ", "w", " ", "7", ")">>

\* 'a
X_qa ==
    <<"'", "a">>

\* 'b
X_qb ==
    <<"'", "b">>

\* 'c
X_qc ==
    <<"'", "c">>

\* 1
X_1 ==
    <<"1">>

\* 2
X_2 ==
    <<"2">>

\* 3
X_3 ==
    <<"3">>

\* 4
X_4 ==
    <<"4">>

\* 5
X_5 ==
    <<"5">>

\* a
X_a ==
    <<"a">>

\* b
X_b ==
    <<"b">>

\* c
X_c ==
    <<"c">>

\* x
X_x ==
    <<"x">>

\* (+ a b)
X_addab ==
    <<"(", "+", " ", "a", " ", "b", ")">>

\* (+ a 1)
X_adda1 ==
    <<"(", "+", " ", "a", " ", "1", ")">>

\* (define d a)
X_defda ==
    <<"(", "d", "e", "f", "i", "n", "e", " ", "d", " ", "a", ")">>

\* (define x 1)
X_defx1 ==
    <<"(", "d", "e", "f", "i", "n", "e", " ", "x", " ", "1", ")">>

\* (lambda (x y) (cat x y))
X_lamxy ==
    <<"(", "l", "a", "m", "b", "d", "a", " ", "(", "x", " ", "y", ")", " ", "(", "c", "a", "t",
      " ", "x", " ", "y", ")", ")">>

\* (lambda (x) (+ x 0))
X_lamx ==
    <<"(", "l", "a", "m", "b", "d", "a", " ", "(", "x", ")", " ", "(", "+", " ", "x", " ", "0",
      ")", ")">>

\* 'foo 'bar
X_foobar ==
    <<"'", "f", "o", "o", " ", "'", "b", "a", "r">>

\* (let ((a 2)) (define a 3))
T_LetDefine ==
    <<"(", "l", "e", "t", " ", "(", "(", "a", " ", "2", ")", ")", " ", "(", "d", "e", "f", "i",
      "n", "e", " ", "a", " ", "3", ")", ")">>

\* (define (p) (define a 5))
T_DefP ==
    <<"(", "d", "e", "f", "i", "n", "e", " ", "(", "p", ")", " ", "(", "d", "e", "f", "i", "n",
      "e", " ", "a", " ", "5", ")", ")">>

\* (p)
T_CallP ==
    <<"(", "p", ")">>

\* (+ a 0)
T_AddA ==
    <<"(", "+", " ", "a", " ", "0", ")">>

\* (define (q a) (+ a 0))
T_DefQ ==
    <<"(", "d", "e", "f", "i", "n", "e", " ", "(", "q", " ", "a", ")", " ", "(", "+", " ", "a",
      " ", "0", ")", ")">>

\* (q 7)
T_CallQ ==
    <<"(", "q", " ", "7", ")">>

\* (q 7 8)
T_CallQ2 ==
    <<"(", "q", " ", "7", " ", "8", ")">>

\* (q)
T_CallQ0 ==
    <<"(", "q", ")">>

\* (list 1 2)
X_list12 ==
    <<"(", "l", "i", "s", "t", " ", "1", " ", "2", ")">>

\* (list 1 3)
X_list13 ==
    <<"(", "l", "i", "s", "t", " ", "1", " ", "3", ")">>

\* (lambda () (1))
X_lam1 ==
    <<"(", "l", "a", "m", "b", "d", "a", " ", "(", ")", " ", "(", "1", ")", ")">>

\* (list 1 2 3)
X_list123 ==
    <<"(", "l", "i", "s", "t", " ", "1", " ", "2", " ", "3", ")">>

\* (list 1)
X_list1 ==
    <<"(", "l", "i", "s", "t", " ", "1", ")">>

\* (list)
X_list0 ==
    <<"(", "l", "i", "s", "t", ")">>

\* '()
X_qnil ==
    <<"'", "(", ")">>

\* (cdr 5)
X_cdr5 ==
    <<"(", "c", "d", "r", " ", "5", ")">>

\* (list 1 2 3 4)
X_list1234 ==
    <<"(", "l", "i", "s", "t", " ", "1", " ", "2", " ", "3", " ", "4", ")">>

\* (+ 1 1)
X_add11 ==
    <<"(", "+", " ", "1", " ", "1", ")">>

\* (cat 'a 'b)
X_catab ==
    <<"(", "c", "a", "t", " ", "'", "a", " ", "'", "b", ")">>

\* (list 1 (list 2 3))
X_nest ==
    <<"(", "l", "i", "s", "t", " ", "1", " ", "(", "l", "i", "s", "t", " ", "2", " ", "3", ")",
      ")">>

\* (- 1 3)
X_sub13 ==
    <<"(", "-", " ", "1", " ", "3", ")">>

\* (define (r a) (car a))
T_DefR ==
    <<"(", "d", "e", "f", "i", "n", "e", " ", "(", "r", " ", "a", ")", " ", "(", "c", "a", "r",
      " ", "a", ")", ")">>

\* ('a)
T_QuoteEval ==
    <<"(", "'", "a", ")">>

\* ('(+ 1 2))
T_QuoteEvalList ==
    <<"(", "'", "(", "+", " ", "1", " ", "2", ")", ")">>

\* (')
T_QuoteEvalEnd ==
    <<"(", "'", ")">>

\* (list 'a)
T_QuoteEvlist ==
    <<"(", "l", "i", "s", "t", " ", "'", "a", ")">>

\* (list ')
T_QuoteEvlistEnd ==
    <<"(", "l", "i", "s", "t", " ", "'", ")">>

\* (r 'b)
T_QuoteArg ==
    <<"(", "r", " ", "'", "b", ")">>

\* (r ')
T_QuoteArgEnd ==
    <<"(", "r", " ", "'", ")">>

\* (define (s a) (lambda () (a)))
T_DefS ==
    <<"(", "d", "e", "f", "i", "n", "e", " ", "(", "s", " ", "a", ")", " ", "(", "l", "a", "m",
      "b", "d", "a", " ", "(", ")", " ", "(", "a", ")", ")", ")">>

\* (s 7)
T_CallS ==
    <<"(", "s", " ", "7", ")">>

\* (s 7 8)
T_CallS2 ==
    <<"(", "s", " ", "7", " ", "8", ")">>

\* (define (w a b) (- a b))
T_DefW ==
    <<"(", "d", "e", "f", "i", "n", "e", " ", "(", "w", " ", "a", " ", "b", ")", " ", "(", "-",
      " ", "a", " ", "b", ")", ")">>

\* (w 7 8)
T_CallW ==
    <<"(", "w", " ", "7", " ", "8", ")">>

\* (w 7)
T_CallW1 ==
    <<"(", "w", " ", "7", ")">>

\* (+ y 0)
T_AddY ==
    <<"(", "+", " ", "y", " ", "0", ")">>

\* (define y 2)
T_DefY2 ==
    <<"(", "d", "e", "f", "i", "n", "e", " ", "y", " ", "2", ")">>

\* (define y 5)
T_DefY5 ==
    <<"(", "d", "e", "f", "i", "n", "e", " ", "y", " ", "5", ")">>

\* (+ y 0) (define y 5)
T_AddYDefY ==
    <<"(", "+", " ", "y", " ", "0", ")", " ", "(", "d", "e", "f", "i", "n", "e", " ", "y", " ",
      "5", ")">>

\* (q q)
T_CallQQ ==
    <<"(", "q", " ", "q", ")">>

\* (q q 7)
T_CallQQ7 ==
    <<"(", "q", " ", "q", " ", "7", ")">>

\* (cond (1))
T_CondShort ==
    <<"(", "c", "o", "n", "d", " ", "(", "1", ")", ")">>

\* (let ((a)) 1)
T_LetShort ==
    <<"(", "l", "e", "t", " ", "(", "(", "a", ")", ")", " ", "1", ")">>

\* (define () (1))
T_DefineEmpty ==
    <<"(", "d", "e", "f", "i", "n", "e", " ", "(", ")", " ", "(", "1", ")", ")">>

\* (car '())
T_CarNil ==
    <<"(", "c", "a", "r", " ", "'", "(", ")", ")">>

\* (car (list 1 2))
T_CarList ==
    <<"(", "c", "a", "r", " ", "(", "l", "i", "s", "t", " ", "1", " ", "2", ")", ")">>

\* ()
T_Empty ==
    <<"(", ")">>

\* (cond (p1 e1) ... (pk ek)), inside one more pair of parentheses when nest
ClauseText(c) == Par(Sp(c.p, c.e))

CondText(ci) ==
    LET t == Par(Words(<<W_cond>> \o [k \in 1..Len(ci.cl) |-> ClauseText(ci.cl[k])]))
    IN  IF ci.nest THEN Par(t) ELSE t

Cl(p, e) == [p |-> p, e |-> e]

\* (cond ((< 2 1) 'a) ((= 1 1) 'b) (else 'c))
CondScenario5 ==
    [cl |-> <<Cl(X_lt21, X_qa), Cl(X_eq11, X_qb), Cl(W_else, X_qc)>>, nest |-> FALSE]

\* (cond ((< 2 1) 1) ((= 1 1) 2) (else 3))
CondNumbers ==
    [cl |-> <<Cl(X_lt21, X_1), Cl(X_eq11, X_2), Cl(W_else, X_3)>>, nest |-> FALSE]

\* (cond ((= 1 1) 1) ((define w 7) 2)), bare and nested
CondLater(nest) == [cl |-> <<Cl(X_eq11, X_1), Cl(X_defw, X_2)>>, nest |-> nest]

\* (cond ((< 2 1) 1)), bare and nested
CondNoMatch(nest) == [cl |-> <<Cl(X_lt21, X_1)>>, nest |-> nest]

\* (cond ((= 1 1) 1) (else 2) ((= 1 1) 3))
CondElseMidTaken ==
    [cl |-> <<Cl(X_eq11, X_1), Cl(W_else, X_2), Cl(X_eq11, X_3)>>, nest |-> FALSE]

\* (cond ((< 2 1) 1) (else 2) ((= 1 1) 3)), bare and nested
CondElseMid(nest) ==
    [cl |-> <<Cl(X_lt21, X_1), Cl(W_else, X_2), Cl(X_eq11, X_3)>>, nest |-> nest]

\* (cond (else 2) ((= 1 1) 3))
CondElseFirst == [cl |-> <<Cl(W_else, X_2), Cl(X_eq11, X_3)>>, nest |-> FALSE]

CondInputs ==
    {CondScenario5, CondNumbers, CondLater(FALSE), CondLater(TRUE)}

ElseInputs ==
    {CondNoMatch(FALSE), CondNoMatch(TRUE), CondElseMidTaken, CondElseMid(FALSE),
     CondElseMid(TRUE), CondElseFirst}

\* (let ((n1 v1) ... (nk vk)) body), inside one more pair of parentheses when nest
PairText(b) == Par(Sp(b.n, b.v))

LetText(li) ==
    LET t == Par(Words(<<W_let,
                         Par(Words([k \in 1..Len(li.pairs) |-> PairText(li.pairs[k])])),
                         li.body>>))
    IN  IF li.nest THEN Par(t) ELSE t

Bd(n, v) == [n |-> n, v |-> v]

\* (let ((a 2) (b a)) b)
LetEarlierName == [pairs |-> <<Bd(X_a, X_2), Bd(X_b, X_a)>>, body |-> X_b, nest |-> FALSE]

LetInputs ==
    {[pairs |-> <<Bd(X_a, X_2), Bd(X_b, X_3)>>, body |-> X_addab, nest |-> FALSE],
     LetEarlierName,
     [pairs |-> <<Bd(X_c, X_4)>>, body |-> X_c, nest |-> TRUE],
     [pairs |-> <<Bd(X_a, X_2)>>, body |-> X_defda, nest |-> FALSE],
     [pairs |-> <<Bd(X_a, X_adda1)>>, body |-> X_a, nest |-> TRUE]}

\* (kw arg) for the keyword not and for the operator !
NotText(ni) == Par(Sp(ni.kw, ni.arg))

NotInputs == [kw : {W_not, W_bang}, arg : {X_eq12, X_eq11, X_5}]

\* (fn args): the head is a parenthesized expression
ApplyText(ai) == Par(Sp(ai.fn, ai.args))

\* ((lambda (x y) (cat x y)) 'foo 'bar)
ApplyScenario6 == [fn |-> X_lamxy, args |-> X_foobar]

\* ((lambda (x) (+ x 0)) 5)
ApplyNumber == [fn |-> X_lamx, args |-> X_5]

ApplyInputs == {ApplyScenario6, ApplyNumber}

\* (begin e1 ... en)
BeginText(es) == Par(Words(<<W_begin>> \o es))

BeginInputs == {<<X_defx1, X_x>>, <<X_1, X_2>>}

\* (w1 ... wk): a line of words for the lexer
\* (= a b)
EqText(ei) == Par(Words(<<<<"=">>, ei.a, ei.b>>))

\* pairs of Numbers, of strings, of lists and of procedures
EqInputs ==
    {[a |-> X_1, b |-> X_1], [a |-> X_1, b |-> X_2], [a |-> X_qa, b |-> X_qa],
     [a |-> X_qa, b |-> X_qb], [a |-> X_list12, b |-> X_list12],
     [a |-> X_list12, b |-> X_list13], [a |-> X_lam1, b |-> X_lam1]}

\* (cons (car l) (cdr l))
ConsText(l) ==
    Par(Words(<<<<"c", "o", "n", "s">>, Par(Sp(<<"c", "a", "r">>, l)),
                Par(Sp(<<"c", "d", "r">>, l))>>))

ConsInputs == {X_list12, X_list123, X_list1234}

\* (cdr x)
CdrText(x) == Par(Sp(<<"c", "d", "r">>, x))

CdrInputs == {X_5, X_qa, X_list0, X_qnil, X_cdr5, X_list1, X_list12, X_list123}

\* ((x)): the head is the Expr (x), evaluated by eval
ExprEvalText(x) == Par(Par(x))

\* (list (x)): the operand is the Expr (x), evaluated by evlist
ExprEvlistText(x) == Par(Sp(<<"l", "i", "s", "t">>, Par(x)))

\* the enclosed sequences: 5, 1 2, nothing, (5), 'a, (1 2) 3
ExprInputs == {X_5, Sp(X_1, X_2), <<>>, Par(X_5), X_qa, Sp(Par(Sp(X_1, X_2)), X_3)}

KW(i) == keywords[i][1]

LexText(ws) == Par(Words(ws))

LexInputs ==
    {<<KW(1), KW(2), KW(3), KW(4)>>, <<KW(5), KW(6), KW(7), KW(8)>>,
     <<KW(9), KW(10), KW(11), KW(12)>>, <<KW(13), KW(14), KW(15), KW(16)>>,
     <<<<"f", "o", "o">>, KW(1) \o <<"d">>, <<"x">>, KW(16) \o <<"s">>>>}

Inputs ==
    [s \in {"closure", "fail", "cond", "else", "let", "not", "apply", "lex", "scope", "bind",
            "eq", "cons", "cdr", "print", "quote", "expr", "operand", "args",
            "file", "shortcut", "parse", "bounds"} |->
        CASE s = "closure" -> {T_DefX, T_DefFLet, T_CallF, T_DefMk, T_DefG, T_CallGLet}
          [] s = "fail" -> {T_FailArg, T_FailList, T_DefZ, T_AddZ, T_Include}
          [] s = "cond" -> {CondText(ci) : ci \in CondInputs}
          [] s = "else" -> {CondText(ci) : ci \in ElseInputs}
          [] s = "let" -> {T_DefA} \cup {LetText(li) : li \in LetInputs}
          [] s = "not" -> {NotText(ni) : ni \in NotInputs}
          [] s = "apply" -> {ApplyText(ai) : ai \in ApplyInputs} \cup {BeginText(es) : es \in BeginInputs}
          [] s = "lex" -> {LexText(ws) : ws \in LexInputs}
          [] s = "eq" -> {EqText(ei) : ei \in EqInputs}
          [] s = "cons" -> {ConsText(l) : l \in ConsInputs}
          [] s = "cdr" -> {CdrText(x) : x \in CdrInputs}
          [] s = "print" -> {X_add11, X_sub13, X_catab, X_qa, X_eq11, X_eq12, X_list0,
                             X_list12, X_nest}
          [] s = "quote" -> {T_DefR, T_QuoteEval, T_QuoteEvalList, T_QuoteEvalEnd, T_QuoteEvlist,
                             T_QuoteEvlistEnd, T_QuoteArg, T_QuoteArgEnd}
          [] s = "expr" -> {ExprEvalText(x) : x \in ExprInputs}
          [] s = "operand" -> {ExprEvlistText(x) : x \in ExprInputs}
          [] s = "file" -> {T_Include, T_AddY, T_Empty}
          [] s = "shortcut" -> {T_DefQ, T_CallQ, T_CallQQ, T_CallQQ7}
          [] s = "parse" -> {T_AddY}
          [] s = "bounds" -> {T_CondShort, T_LetShort, T_DefineEmpty, T_CarNil, T_CarList}
          [] s = "scope" -> {T_DefA, T_LetDefine, T_DefP, T_CallP, T_AddA}
          [] s = "bind" -> {T_DefA, T_DefQ, T_CallQ, T_CallQ2, T_CallQ0, T_AddA}
          [] s = "args" -> {T_DefS, T_CallS, T_CallS2, T_DefW, T_CallW, T_CallW1}]

Suites == DOMAIN Inputs

\* the sessions in which the user ends the input of cin
Closing == {"file"}

\* argv[1..]: no argument, a file, a file and the option -p
Argv ==
    [s \in Suites |->
        IF s = "file" THEN {<<>>, <<<<"l", "i", "b">>>>, <<<<"l", "i", "b">>, <<"-", "p">>>>,
                            <<<<"b", "a", "d">>>>, <<<<"n", "i", "l">>>>}
        ELSE IF s = "parse" THEN {<<n>> : n \in ParseFiles}
        ELSE {<<>>}]

(***************************************************************************)
(* main and start: the read-eval loop in interactive mode (argc == 1).     *)
(***************************************************************************)
(***************************************************************************)
(* Output: print_visitor, print, and the lines start writes to cout.       *)
(***************************************************************************)
\* static_cast<char>(kind); the unnamed kinds Include, Begin .. Let are the
\* control characters 0 .. 7, written here as one character "CTRL"
KindChar(k) ==
    CASE k = "Define" -> "d"  [] k = "Lambda" -> "l" [] k = "Number" -> "#"
      [] k = "Name" -> "n"    [] k = "Expr" -> "e"   [] k = "Proc" -> "p"
      [] k = "False" -> "f"   [] k = "True" -> "t"   [] k = "Cond" -> "c"
      [] k = "Else" -> ","    [] k = "End" -> "."    [] k = "Empty" -> " "
      [] k = "Quote" -> "'"   [] k = "Lp" -> "("     [] k = "Rp" -> ")"
      [] k = "And" -> "&"     [] k = "Not" -> "!"    [] k = "Or" -> "|"
      [] k = "Mul" -> "*"     [] k = "Add" -> "+"    [] k = "Sub" -> "-"
      [] k = "Div" -> "/"     [] k = "Less" -> "<"   [] k = "Equal" -> "="
      [] k = "Greater" -> ">" [] k = "Comment" -> ";"
      [] OTHER -> "CTRL"

\* the kind character cout receives before the payload of a primitive cell
PrimChar(c) == IF c.kind \notin {"Number", "Name", "Expr"} THEN <<KindChar(c.kind)>> ELSE <<>>

\* cout << num for an integral double of fewer than 7 digits
RECURSIVE NatText(_)
NatText(n) == IF n < 10 THEN <<Digits[n + 1]>> ELSE NatText(n \div 10) \o <<Digits[(n % 10) + 1]>>

NumText(n) == IF n < 0 THEN <<"-">> \o NatText(0 - n) ELSE NatText(n)

\* print_visitor: <<"cell", c, end>> is boost::apply_visitor(print_visitor(end),
\* c.data), and <<"elems", list, i>> is the loop of the List case from element i
RECURSIVE PrintRun(_)
PrintRun(t) ==
    IF t[1] = "elems"
    THEN LET list == t[2]
             i == t[3]
         IN  IF i = Len(list) THEN PrintRun(<<"cell", list[i], <<>>>>)
             ELSE PrintRun(<<"cell", list[i], <<" ">>>>) \o PrintRun(<<"elems", list, i + 1>>)
    ELSE LET c == t[2]
             end == t[3]
         IN  CASE c.tag = "string" -> c.str \o end
               [] c.tag = "double" -> NumText(c.num) \o end
               [] c.tag = "proc" -> <<"p", "r", "o", "c">> \o end
               [] OTHER ->
                     <<"(">> \o (IF Len(c.list) > 0
                                 THEN PrimChar(c.list[1]) \o PrintRun(<<"elems", c.list, 1>>)
                                 ELSE <<>>)
                             \o <<")">> \o end

\* boost::apply_visitor(print_visitor(end), c.data)
print_visitor(c, end) == PrintRun(<<"cell", c, end>>)

\* print(cell), as operator<< calls it
print(c) == PrimChar(c) \o print_visitor(c, <<" ">>)

\* one piece of start's output: the prompt, cout << res << '\n', the reset
\* notice, or "Bad expression: " << e.what()
OutItem(what, chars, msg) == [what |-> what, chars |-> chars, msg |-> msg]

OutPrompt(pr) == IF pr THEN <<OutItem("prompt", <<">", " ">>, "")>> ELSE <<>>

OutRes(pr, v) == IF pr THEN <<OutItem("res", print(v) \o <<"NL">>, "")>> ELSE <<>>

OutReset == <<OutItem("reset", <<>>, "At end of stream, reseting")>>

OutBad(m) == <<OutItem("bad", <<>>, m)>>

State == [frames |-> frames, procs |-> procs, cs |-> cs]

\* an outcome: by is "parse" when expr(true) threw, "eval" when eval ran
Res(st, v, m, by) == [st |-> st, val |-> v, msg |-> m, by |-> by]

NoRes == Res("none", CellK("End"), "", "none")

\* Cell_stream cs {cin}
Cs0 ==
    [streams |-> <<MkStream(<<>>, FALSE)>>, ip |-> 1, old |-> <<>>, owns |-> <<>>,
     ct |-> CellK("End")]

\* main: cs.set_input(new ifstream{argv[1]}) when there is an argument
MainInput(av) == IF Len(av) = 0 THEN Cs0 ELSE SetInputOwned(av[1], [cs |-> Cs0]).cs

\* main: print_res
MainPrintRes(av) ==
    \/ Len(av) = 0
    \/ Len(av) = 2 /\ av[2] \in {<<"-", "p">>, <<"-", "p", "r", "i", "n", "t">>}

Init ==
    /\ suite \in Suites
    /\ frames = <<MkFrame(0, "global"), MkFrame(0, "heap")>>
    /\ procs = <<>>
    /\ argv \in Argv[suite]
    /\ cs = MainInput(argv)
    /\ print_res = MainPrintRes(argv)
    /\ pc = "read"
    /\ parsed = <<>>
    /\ lhsFirst \in BOOLEAN
    /\ lastText = <<>>
    /\ lastRes = NoRes
    /\ out = <<>>
    /\ pre = [frames |-> <<>>, procs |-> <<>>]
    /\ steps = 0
    /\ inited = FALSE

\* the read blocks on cin: nothing but whitespace is left in its buffer
AwaitsInput(c) ==
    /\ c.ip = 1
    /\ Good(c.streams[1])
    /\ \A i \in (c.streams[1].pos + 1)..Len(c.streams[1].buf) : IsSpace(c.streams[1].buf[i])

\* expr(true) inside start's try block
ReadFrom(c) ==
    LET r == expr(TRUE, c) IN
    /\ cs' = r.cs
    /\ IF r.st = "ok"
       THEN /\ parsed' = r.list
            /\ pc' = "eval"
            /\ lastRes' = NoRes
            /\ out' = OutPrompt(print_res)
       ELSE /\ parsed' = <<>>
            /\ pc' = "read"
            /\ lastRes' = Res("err", CellK("End"), r.msg, "parse")
            /\ out' = OutPrompt(print_res) \o OutBad(r.msg)
    /\ UNCHANGED <<frames, procs, print_res, lhsFirst, pre, suite, argv, inited>>

\* the user types the line t and start reads one expression
ReadTyped(t) ==
    /\ pc = "read"
    /\ AwaitsInput(cs)
    /\ steps < MaxSteps
    /\ lastText' = t
    /\ steps' = steps + 1
    /\ ReadFrom([cs EXCEPT !.streams[1].buf = @ \o t \o <<"NL">>])

\* the user has ended the input of cin, which holds nothing more to read
CinEnded == AwaitsInput(cs) /\ suite \in Closing

\* start reads one expression without a line being typed: from what the
\* active stream still holds, or from cin at its end
ReadBuffered ==
    /\ pc = "read"
    /\ ~AwaitsInput(cs) \/ CinEnded
    /\ lastText' = <<>>
    /\ UNCHANGED steps
    /\ ReadFrom(cs)

\* cs.reset() is called with old or owns empty
ResetUndefined(c) == Len(c.owns) = 0 \/ Len(c.old) = 0

\* cs.reset()
Reset(c) ==
    LET o == c.owns[Len(c.owns)] IN
    [c EXCEPT !.streams[o].deleted = IF o = c.ip THEN TRUE ELSE @,
              !.ip = c.old[Len(c.old)],
              !.old = SubSeq(c.old, 1, Len(c.old) - 1)]

\* if (res.kind == Kind::End || cs.eof())
WantsReset(r) == r.st = "ok" /\ (r.val.kind = "End" \/ Eof(r.S.cs))

\* eval(parsed, &e0) and the rest of the loop body, when all of it is defined
EvalStep ==
    /\ pc = "eval"
    /\ LET r == Eval(parsed, 1, State) IN
       /\ r.st \in {"ok", "err"}
       /\ ~(WantsReset(r) /\ ResetUndefined(r.S.cs))
       /\ frames' = r.S.frames
       /\ procs' = r.S.procs
       /\ cs' = IF WantsReset(r) THEN Reset(r.S.cs) ELSE r.S.cs
       /\ print_res' = IF WantsReset(r) /\ Base(Reset(r.S.cs)) THEN TRUE ELSE print_res
       /\ lastRes' = Res(r.st, r.val, r.msg, "eval")
       /\ out' = out \o (IF r.st = "err" THEN OutBad(r.msg)
                         ELSE OutRes(print_res, r.val)
                                 \o (IF WantsReset(r) THEN OutReset ELSE <<>>))
    /\ pc' = "read"
    /\ parsed' = <<>>
    /\ pre' = [frames |-> frames, procs |-> procs]
    /\ UNCHANGED <<lhsFirst, lastText, steps, suite, argv, inited>>

\* what a build may yield where the code reads outside an object
UBValues == {CellK("End"), CellNum(0)}

\* the loop body runs into undefined behaviour: in eval, or in cs.reset();
\* the build crashes, throws, or goes on with some value
EvalUndefined ==
    /\ pc = "eval"
    /\ LET r == Eval(parsed, 1, State) IN
       /\ r.st = "ub" \/ (WantsReset(r) /\ ResetUndefined(r.S.cs))
       /\ frames' = r.S.frames
       /\ procs' = r.S.procs
       /\ cs' = r.S.cs
       /\ LET sofar == IF r.st = "ub" THEN out
                       ELSE out \o OutRes(print_res, r.val) \o OutReset
          IN
          \/ /\ pc' = "crashed"
             /\ lastRes' = Res("crash", CellK("End"), "", "eval")
             /\ out' = sofar
          \/ /\ pc' = "read"
             /\ lastRes' = Res("err", CellK("End"), "undefined", "eval")
             /\ out' = sofar \o OutBad("undefined")
          \/ /\ pc' = "read"
             /\ \E v \in (IF r.st = "ub" THEN UBValues ELSE {r.val}) :
                   /\ lastRes' = Res("ok", v, "", "eval")
                   /\ out' = IF r.st = "ub" THEN out \o OutRes(print_res, v) ELSE sofar
    /\ parsed' = <<>>
    /\ pre' = [frames |-> frames, procs |-> procs]
    /\ UNCHANGED <<print_res, lhsFirst, lastText, steps, suite, argv, inited>>

Next ==
    \/ \E t \in Inputs[suite] : ReadTyped(t)
    \/ ReadBuffered
    \/ EvalStep
    \/ EvalUndefined

Spec == Init /\ [][Next]_vars

(***************************************************************************)
(* The embedded build: the host calls expr_str(input), one text per call.  *)
(***************************************************************************)
\* the texts the host passes
StrInputs == {T_DefY2, T_DefY5, T_AddY, T_AddYDefY, T_AddZ, T_Include, <<"y">>}

\* the globals before the first call: e0, empty arenas, cs {cin}, inited {false}
InitStr ==
    /\ suite = "str"
    /\ frames = <<MkFrame(0, "global")>>
    /\ procs = <<>>
    /\ argv = <<>>
    /\ cs = Cs0
    /\ print_res = FALSE
    /\ pc = "read"
    /\ parsed = <<>>
    /\ lhsFirst \in BOOLEAN
    /\ lastText = <<>>
    /\ lastRes = NoRes
    /\ out = <<>>
    /\ pre = [frames |-> <<>>, procs |-> <<>>]
    /\ steps = 0
    /\ inited = FALSE

\* init_env: envs.push_back(e0)
init_env(fs) == Append(fs, [fs[1] EXCEPT !.store = "heap"])

\* the local istringstream in, the stream pushed last by expr_str, is
\* destroyed when expr_str returns or is left by an exception
LeaveStr(c, id) == [c EXCEPT !.streams[id].deleted = TRUE]

\* the stream of the text of the call in progress: the one pushed last that
\* is not a file opened by include
StrIn ==
    LET owned == {cs.owns[k] : k \in DOMAIN cs.owns} IN
    CHOOSE i \in 1..Len(cs.streams) :
        i \notin owned /\ \A j \in (i + 1)..Len(cs.streams) : j \in owned

\* expr_str(input) up to expr(true); pc = "read" stands for the host being free to call
StrRead(input) ==
    /\ pc = "read"
    /\ steps < MaxSteps
    /\ LET p == expr(TRUE, SetInput(input, cs)) IN
       /\ parsed' = p.list
       /\ IF p.st = "ok"
          THEN /\ cs' = p.cs
               /\ pc' = "eval"
               /\ lastRes' = NoRes
          ELSE /\ cs' = LeaveStr(p.cs, Len(cs.streams) + 1)
               /\ pc' \in {"read", "crashed"}
               /\ lastRes' = Res("err", CellK("End"), p.msg, "parse")
    /\ inited' = TRUE
    /\ frames' = IF inited THEN frames ELSE init_env(frames)
    /\ lastText' = input
    /\ steps' = steps + 1
    /\ out' = <<>>
    /\ UNCHANGED <<procs, print_res, lhsFirst, pre, suite, argv>>

\* the rest of expr_str: eval(..., &e0), *outstream << res, return
StrEval ==
    /\ pc = "eval"
    /\ LET r == Eval(parsed, 1, State) IN
       /\ frames' = r.S.frames
       /\ procs' = r.S.procs
       /\ cs' = LeaveStr(r.S.cs, StrIn)
       /\ \/ /\ r.st = "ok"
             /\ pc' = "read"
             /\ lastRes' = Res("ok", r.val, "", "eval")
             /\ out' = OutRes(TRUE, r.val)
          \/ /\ r.st = "err"
             /\ pc' \in {"read", "crashed"}
             /\ lastRes' = Res("err", CellK("End"), r.msg, "eval")
             /\ out' = <<>>
          \/ /\ r.st = "ub"
             /\ \/ /\ pc' = "crashed"
                   /\ lastRes' = Res("crash", CellK("End"), "", "eval")
                   /\ out' = <<>>
                \/ /\ pc' = "read"
                   /\ lastRes' = Res("err", CellK("End"), "undefined", "eval")
                   /\ out' = <<>>
                \/ /\ pc' = "read"
                   /\ \E v \in UBValues :
                         /\ lastRes' = Res("ok", v, "", "eval")
                         /\ out' = OutRes(TRUE, v)
    /\ pre' = [frames |-> frames, procs |-> procs]
    /\ UNCHANGED <<parsed, print_res, lhsFirst, lastText, steps, suite, argv, inited>>

NextStr ==
    \/ \E input \in StrInputs : StrRead(input)
    \/ StrEval

SpecStr == InitStr /\ [][NextStr]_vars

(***************************************************************************)
(* Properties.  A property speaks of a line once the loop body has run     *)
(* eval on it: lastText is the line, pre the frames and procedures before  *)
(* the evaluation, lastRes its outcome.  The value a form should have is   *)
(* composed from the values eval gives the texts of its parts.             *)
(***************************************************************************)
\* the cells of the text t, as expr reads them from a stream holding t
ParseCells(t) ==
    expr(FALSE, [streams |-> <<MkStream(t \o <<"NL">>, FALSE)>>, ip |-> 1, old |-> <<>>,
                 owns |-> <<>>, ct |-> CellK("End")]).list

\* the outcome of eval on the text t in the frame env of the state S
ValueOf(t, env, S) == Eval(ParseCells(t), env, S)

\* the loop body has run eval on the line lastText
Evaluated == pc # "eval" /\ lastRes.by = "eval"

\* the interpreter state in which that evaluation started
Before == [frames |-> pre.frames, procs |-> pre.procs, cs |-> cs]

\* the name n was bound in the global frame when the evaluation started
BoundBefore(n) == n \in DOMAIN pre.frames[1].env

\* and bound to a procedure
ProcBefore(n) == BoundBefore(n) /\ pre.frames[1].env[n].kind = "Proc"

\* the outcome is that of r, and so are the bindings of the global frame
SameAs(r) ==
    /\ lastRes.st = r.st
    /\ lastRes.val = r.val
    /\ lastRes.msg = r.msg
    /\ frames[1].env = r.S.frames[1].env

\* C1: a procedure created inside a let body or inside another procedure's
\* body resolves its free variables, when applied after its creator has
\* returned and from a call site that binds the same names otherwise, in the
\* frame chain of its creation: (f), with f made by
\* (let ((x 2)) (lambda () (+ x 0))), yields 2, and (let ((x 9)) (g)), with g
\* made by (mk 3), yields 3.
C1_ClosureSeesDefinitionSite ==
    /\ (Evaluated /\ lastText = T_CallF /\ ProcBefore(<<"f">>))
          => (lastRes.st = "ok" /\ lastRes.val = CellNum(2))
    /\ (Evaluated /\ lastText = T_CallGLet /\ ProcBefore(<<"g">>))
          => (lastRes.st = "ok" /\ lastRes.val = CellNum(3))

\* C2: when the evaluation of a top-level expression raises an error, every
\* frame that existed before it holds exactly the bindings it held before: no
\* define evaluated inside the failed expression remains bound.
C2_FailedExpressionLeavesNoBinding ==
    (Evaluated /\ lastRes.st = "err" /\ lastRes.msg # "undefined")
        => /\ Len(frames) >= Len(pre.frames)
           /\ \A h \in 1..Len(pre.frames) : frames[h].env = pre.frames[h].env

\* the value of (cond (p1 e1) ... (pk ek)) from clause k on: the predicates in
\* order, the expression of the first truthy one, nothing of later clauses
RECURSIVE RefCond(_, _, _)
RefCond(cl, k, S) ==
    IF k > Len(cl) THEN Ok(CellK("End"), S)
    ELSE IF cl[k].p = W_else THEN ValueOf(cl[k].e, 1, S)
    ELSE LET r == ValueOf(cl[k].p, 1, S) IN
         IF r.st # "ok" THEN r
         ELSE IF Truthy(r.val) THEN ValueOf(cl[k].e, 1, r.S)
         ELSE RefCond(cl, k + 1, r.S)

\* C3: a cond evaluates its predicates in clause order, stops at the first
\* truthy one and returns the value of the expression paired with it, also
\* when that expression is a quoted symbol; nothing of a later clause is
\* evaluated, so no binding a later clause would make exists afterwards.
C3_CondFirstTruthy ==
    \A ci \in CondInputs :
        (Evaluated /\ lastText = CondText(ci)) => SameAs(RefCond(ci.cl, 1, Before))

\* C4: a cond in which no predicate is truthy and which has no else clause
\* yields the Cell of kind End without an error, through eval (the bare form)
\* and through evlist (the form inside one more pair of parentheses).
C4_CondNoMatchIsEnd ==
    \A nest \in BOOLEAN :
        (Evaluated /\ lastText = CondText(CondNoMatch(nest)))
            => (lastRes.st = "ok" /\ lastRes.val = CellK("End"))

\* an else clause stands in a position other than the last
MisplacedElse(ci) == \E k \in 1..(Len(ci.cl) - 1) : ci.cl[k].p = W_else

\* every predicate before the first else clause, from clause k on, is False
RECURSIVE AllFalseBefore(_, _, _)
AllFalseBefore(cl, k, S) ==
    IF cl[k].p = W_else THEN TRUE
    ELSE LET r == ValueOf(cl[k].p, 1, S) IN
         r.st = "ok" /\ ~Truthy(r.val) /\ AllFalseBefore(cl, k + 1, r.S)

ElseError == lastRes.st = "err" /\ lastRes.msg = "Else clause not at end of condition"

C6_HeadExpressionApplied ==
    /\ (Evaluated /\ lastText = ApplyText(ApplyScenario6))
          => /\ lastRes.st = "ok"
             /\ lastRes.val.tag = "string"
             /\ lastRes.val.str = <<"f", "o", "o", "b", "a", "r">>
    /\ (Evaluated /\ lastText = ApplyText(ApplyNumber))
          => (lastRes.st = "ok" /\ lastRes.val = CellNum(5))

\* C7: the primitive written not, like the one written !, is logical negation:
\* (not v) is True when the value of v has kind False and False otherwise.
C7_NotIsNegation ==
    \A ni \in NotInputs :
        (Evaluated /\ lastText = NotText(ni)) =>
            LET v == ValueOf(ni.arg, 1, Before) IN
            v.st = "ok" =>
                /\ lastRes.st = "ok"
                /\ lastRes.val.kind = IF v.val.kind = "False" THEN "True" ELSE "False"

\* C8: the lexer returns every token spelled like an entry of the keyword table
\* as a Cell of that entry's Kind, whatever its first letter, and every other
\* identifier as a Name whose payload is the token text.
C8_KeywordsLexedByTable ==
    \A ws \in LexInputs :
        (pc = "eval" /\ lastText = LexText(ws)) =>
            /\ Len(parsed) = Len(ws)
            /\ \A i \in 1..Len(ws) :
                  IF IsKeyword(ws[i])
                  THEN parsed[i].kind = KeywordKind(ws[i])
                  ELSE /\ parsed[i].kind = "Name"
                       /\ parsed[i].tag = "string"
                       /\ parsed[i].str = ws[i]

\* the value of (begin e1 ... en) from ek on: each in order, the last returned
RECURSIVE RefBegin(_, _, _)
RefBegin(es, k, S) ==
    LET r == ValueOf(es[k], 1, S) IN
    IF k = Len(es) \/ r.st # "ok" THEN r ELSE RefBegin(es, k + 1, r.S)

\* C9: (begin e1 ... en) evaluates e1 ... e(n-1) in that order, each once and
\* before en, and returns the value of en, evaluated with the bindings the
\* earlier ones made.
C9_BeginSequence ==
    \A es \in BeginInputs :
        (Evaluated /\ lastText = BeginText(es)) => SameAs(RefBegin(es, 1, Before))

\* the bindings of a let from pair k on, each value taken in the frame env
\* outside the let
RECURSIVE RefLetBind(_, _, _, _, _)
RefLetBind(pairs, k, m, env, S) ==
    IF k > Len(pairs) THEN [st |-> "ok", msg |-> "", env |-> m, S |-> S]
    ELSE LET r == ValueOf(pairs[k].v, env, S) IN
         IF r.st # "ok" THEN [st |-> r.st, msg |-> r.msg, env |-> m, S |-> r.S]
         ELSE RefLetBind(pairs, k + 1, Put(m, pairs[k].n, r.val), env, r.S)

\* the value of (let ((n1 v1) ... (nk vk)) body) in the frame env: the body in
\* one new frame that holds the bindings and whose outer link is env
RefLet(li, env, S) ==
    LET b == RefLetBind(li.pairs, 1, <<>>, env, S) IN
    IF b.st # "ok" THEN [st |-> b.st, val |-> CellK("End"), msg |-> b.msg, S |-> b.S]
    ELSE LET new == [env |-> b.env, outer |-> env, live |-> TRUE, store |-> "stack"]
             S1 == [b.S EXCEPT !.frames = Append(@, new)]
             r == ValueOf(li.body, Len(S1.frames), S1)
         IN  [st |-> r.st, val |-> r.val, msg |-> r.msg, S |-> r.S]

C11_InnerDefineLocal ==
    (Evaluated /\ lastText \in {T_LetDefine, T_CallP} /\ lastRes.st = "ok") =>
        /\ Len(frames) = Len(pre.frames) + 1
        /\ \A h \in 1..Len(pre.frames) : frames[h].env = pre.frames[h].env
        /\ frames[Len(frames)].outer = 1
        /\ <<"a">> \in DOMAIN frames[Len(frames)].env
        /\ frames[Len(frames)].env[<<"a">>] = lastRes.val
        /\ BoundBefore(<<"a">>) =>
              lookup(1, <<"a">>, State) = Ok(pre.frames[1].env[<<"a">>], State)

\* (p), with p defined by (define (p) (define a 5)) and a bound to 1 outside,
\* has bound a to 5 in its own frame
C11_InnerDefineLocal_Witness ==
    /\ Evaluated
    /\ lastText = T_CallP
    /\ lastRes.st = "ok"
    /\ BoundBefore(<<"a">>)
    /\ pre.frames[1].env[<<"a">>] = CellNum(1)
    /\ frames[Len(frames)].env[<<"a">>] = CellNum(5)
    /\ frames[1].env[<<"a">>] = CellNum(1)

\* the two values are of one of the kinds the = primitive is specified for
SameKind(a, b) ==
    \/ a.kind = "Number" /\ b.kind = "Number"
    \/ a.kind = "Name" /\ b.kind = "Name"
    \/ a.kind = "Proc" /\ b.kind = "Proc"
    \/ a.kind = "Expr" /\ b.kind = "Expr"

\* equality by kind: the number, the text, the Proc record, the elements
RECURSIVE RefEqual(_, _)
RefEqual(a, b) ==
    CASE a.kind = "Number" -> a.num = b.num
      [] a.kind = "Name" -> a.str = b.str
      [] a.kind = "Proc" -> a.proc = b.proc
      [] OTHER -> /\ Len(a.list) = Len(b.list)
                  /\ \A i \in 1..Len(a.list) :
                        /\ SameKind(a.list[i], b.list[i])
                        /\ RefEqual(a.list[i], b.list[i])

\* C12: (= a b) on two values of the same kind raises no error and returns
\* True exactly when they are Numbers of the same value, strings of the same
\* text, the same Proc record, or lists of the same length with pairwise equal
\* elements, and False otherwise.
C12_EqualByKind ==
    \A ei \in EqInputs :
        (Evaluated /\ lastText = EqText(ei)) =>
            LET a == ValueOf(ei.a, 1, Before)
                b == ValueOf(ei.b, 1, a.S)
            IN  (a.st = "ok" /\ b.st = "ok" /\ SameKind(a.val, b.val)) =>
                    /\ lastRes.st = "ok"
                    /\ lastRes.val = CellBool(RefEqual(a.val, b.val))

\* C13: for a list l of at least 2 elements, (cons (car l) (cdr l)) is a list
\* of the same length as l with the same element at every position.
C13_ConsCarCdr ==
    \A l \in ConsInputs :
        (Evaluated /\ lastText = ConsText(l)) =>
            LET v == ValueOf(l, 1, Before) IN
            (v.st = "ok" /\ v.val.kind = "Expr" /\ Len(v.val.list) >= 2) =>
                /\ lastRes.st = "ok"
                /\ lastRes.val.kind = "Expr"
                /\ Len(lastRes.val.list) = Len(v.val.list)
                /\ \A i \in 1..Len(v.val.list) : lastRes.val.list[i] = v.val.list[i]

\* the specified value of cdr on the value c
RefCdr(c) ==
    IF c.kind # "Expr" \/ Len(c.list) <= 1 THEN CellList(<<>>)
    ELSE IF Len(c.list) = 2 THEN c.list[2]
    ELSE CellList(Tail(c.list))

\* C14: cdr of a value that is not a list, or of a list of 0 or 1 elements, is
\* the empty list; of a list of 2 elements, the second element itself; of a
\* longer list, a new list of the elements 2..n.
C14_CdrCases ==
    \A x \in CdrInputs :
        (Evaluated /\ lastText = CdrText(x)) =>
            LET v == ValueOf(x, 1, Before) IN
            v.st = "ok" => (lastRes.st = "ok" /\ lastRes.val = RefCdr(v.val))

\* a number, a string, a boolean, or a list built only of such values
RECURSIVE Plain(_)
Plain(c) ==
    \/ c.kind \in {"Number", "True", "False"}
    \/ c.kind = "Name" /\ c.tag = "string"
    \/ c.kind = "Expr" /\ \A i \in 1..Len(c.list) : Plain(c.list[i])

\* the interpreter as constructed, about to read the text t
Fresh(t) ==
    [frames |-> <<MkFrame(0, "global"), MkFrame(0, "heap")>>,
     procs |-> <<>>,
     cs |-> [streams |-> <<MkStream(t, FALSE)>>, ip |-> 1, old |-> <<>>, owns |-> <<>>,
             ct |-> CellK("End")]]

\* the text t read and evaluated as start does, in a fresh environment
Reread(t) ==
    LET F == Fresh(t)
        r == expr(TRUE, F.cs)
    IN  IF r.st # "ok" THEN Err(r.msg, F) ELSE Eval(r.list, 1, [F EXCEPT !.cs = r.cs])

\* the = primitive reports a and b equal, taken in either order
ReportsEqual(a, b, S) ==
    \/ apply_prim(CellK("Equal"), <<a, b>>, S) = Ok(CellK("True"), S)
    \/ apply_prim(CellK("Equal"), <<b, a>>, S) = Ok(CellK("True"), S)

\* the value the loop has just printed, and the text it wrote for it
Printed == \E i \in 1..Len(out) : out[i].what = "res"

PrintedText == out[CHOOSE i \in 1..Len(out) : out[i].what = "res"].chars

\* C15: the printed text of a number, a string, a boolean or a list built of
\* such values, read again and evaluated in a fresh environment, yields a
\* value that the = primitive reports equal to the printed one.
C15_PrintParseRoundTrip ==
    (Evaluated /\ suite = "print" /\ lastRes.st = "ok" /\ Printed /\ Plain(lastRes.val)) =>
        LET r == Reread(PrintedText) IN
        r.st = "ok" /\ ReportsEqual(r.val, lastRes.val, r.S)

QuoteError == lastRes.st = "err" /\ lastRes.msg = "Quote expects 1 arg"

\* C16: in eval, in evlist and in the argument collection of a procedure
\* call, a Quote followed by a cell yields that cell unevaluated and
\* unchanged, and a Quote that is the last cell of its sequence raises
\* 'Quote expects 1 arg'.
C16_QuoteEverywhere ==
    /\ (Evaluated /\ lastText = T_QuoteEval)
          => (lastRes.st = "ok" /\ lastRes.val = CellStr(<<"a">>))
    /\ (Evaluated /\ lastText = T_QuoteEvalList)
          => (lastRes.st = "ok" /\
              lastRes.val = CellList(<<CellK("Add"), CellNum(1), CellNum(2)>>))
    /\ (Evaluated /\ lastText = T_QuoteEvlist)
          => (lastRes.st = "ok" /\ lastRes.val = CellList(<<CellStr(<<"a">>)>>))
    /\ (Evaluated /\ lastText = T_QuoteArg /\ ProcBefore(<<"r">>))
          => (lastRes.st = "ok" /\ lastRes.val = CellStr(<<"b">>))
    /\ (Evaluated /\ lastText \in {T_QuoteEvalEnd, T_QuoteEvlistEnd}) => QuoteError
    /\ (Evaluated /\ lastText = T_QuoteArgEnd /\ ProcBefore(<<"r">>)) => QuoteError

\* the values of the sequence enclosed in the Expr (x)
Enclosed(x) == Evlist(ParseCells(x), 1, Before)

\* one element: that element itself; 0 or at least 2: a new Expr of them all
RefExpr(vals) == IF Len(vals) = 1 THEN vals[1] ELSE CellList(vals)

\* C17: an Expr cell evaluates its enclosed sequence to a sequence of values
\* and yields that sequence's only element when it has exactly one, and a new
\* Expr holding the whole sequence when it has 0 or at least 2; eval (the
\* head of ((x))) and evlist (the operand of (list (x))) apply the same rule,
\* and ((5)) is 5.
C17_ExprUnwrap ==
    /\ \A x \in ExprInputs :
          LET r == Enclosed(x) IN
          /\ (Evaluated /\ lastText = ExprEvalText(x) /\ r.st = "ok")
                => (lastRes.st = "ok" /\ lastRes.val = RefExpr(r.vals))
          /\ (Evaluated /\ lastText = ExprEvlistText(x) /\ r.st = "ok")
                => (lastRes.st = "ok" /\ lastRes.val = CellList(<<RefExpr(r.vals)>>))
    /\ (Evaluated /\ lastText = ExprEvalText(X_5))
          => (lastRes.st = "ok" /\ lastRes.val = CellNum(5))
    /\ (Evaluated /\ lastText = ExprEvalText(Par(X_5)))
          => (lastRes.st = "ok" /\ lastRes.val = CellNum(5))

\* ((1 2)) has been evaluated to the list (1 2), of 2 elements
C17_ExprUnwrap_Witness ==
    /\ Evaluated
    /\ lastText = ExprEvalText(Sp(X_1, X_2))
    /\ lastRes.st = "ok"
    /\ lastRes.val = CellList(<<CellNum(1), CellNum(2)>>)

\* the frames of the outer-link chain of the frame h, innermost first
RECURSIVE Chain(_, _)
Chain(fs, h) == IF h = 0 THEN <<>> ELSE <<h>> \o Chain(fs, fs[h].outer)

\* no frame of the chain has been destroyed
LiveChain(fs, h) == \A i \in 1..Len(Chain(fs, h)) : fs[Chain(fs, h)[i]].live

\* the positions in the chain of the frames that contain n
Holders(fs, h, n) == {i \in 1..Len(Chain(fs, h)) : n \in DOMAIN fs[Chain(fs, h)[i]].env}

\* the frame of the chain nearest to h that contains n
Innermost(fs, h, n) ==
    Chain(fs, h)[CHOOSE i \in Holders(fs, h, n) : \A j \in Holders(fs, h, n) : i <= j]

\* the names bound in some frame, and one bound in none
LookupNames == UNION {DOMAIN frames[h].env : h \in 1..Len(frames)} \cup {<<"n", "o">>}

\* C18: lookup(name) on an environment returns the binding held by the
\* innermost frame of its outer-link chain that contains the name, raises
\* 'Unbound variable' when no frame of the chain contains it, and inserts no
\* binding into any frame: so (q 7), with (define (q a) (+ a 0)), is 7 whatever
\* a is outside, and (+ a 0) with a unbound raises the error and leaves a
\* unbound.
C18_LookupInnermost ==
    /\ \A h \in 1..Len(frames) : \A n \in LookupNames :
          LiveChain(frames, h) =>
              LET r == lookup(h, n, State) IN
              /\ r.S = State
              /\ IF Holders(frames, h, n) = {}
                 THEN r.st = "err" /\ r.msg = "Unbound variable"
                 ELSE r.st = "ok" /\ r.val = frames[Innermost(frames, h, n)].env[n]
    /\ (Evaluated /\ lastText = T_CallQ /\ ProcBefore(<<"q">>))
          => (lastRes.st = "ok" /\ lastRes.val = CellNum(7))
    /\ (Evaluated /\ lastText = T_AddA /\ ~BoundBefore(<<"a">>))
          => /\ lastRes.st = "err"
             /\ lastRes.msg = "Unbound variable"
             /\ frames = pre.frames

\* (q 7) has been evaluated with a bound to 1 in the global frame: the frame
\* of the call holds a = 7 in front of it and the lookup of a gave 7
C18_LookupInnermost_Witness ==
    /\ Evaluated
    /\ lastText = T_CallQ
    /\ BoundBefore(<<"a">>)
    /\ pre.frames[1].env[<<"a">>] = CellNum(1)
    /\ lastRes.st = "ok"
    /\ lastRes.val = CellNum(7)
    /\ LiveChain(frames, Len(frames))
    /\ Holders(frames, Len(frames), <<"a">>) = {1, 2}
    /\ lookup(Len(frames), <<"a">>, State) = Ok(CellNum(7), State)

ArgCountError ==
    lastRes.st = "err" /\ lastRes.msg = "# of args provided and expected mismatch"

\* the Proc record the name n was bound to when the evaluation started
ProcOf(n) == pre.procs[pre.frames[1].env[n].proc]

\* the frame the call has added is the last one: it binds exactly m and its
\* outer link is the closure environment of the procedure bound to n
CallFrame(n, m) ==
    /\ Len(frames) = Len(pre.frames) + 1
    /\ frames[Len(frames)].env = m
    /\ frames[Len(frames)].outer = ProcOf(n).env
    /\ \A h \in 1..Len(pre.frames) : frames[h] = pre.frames[h]

\* C19: applying a procedure to an argument list whose length differs from
\* the number of its parameters fails with the argument-count error, without
\* evaluating the body (no Proc is created by the body of s) and without
\* adding a frame; with equal lengths, parameter i is bound to argument i in
\* one new frame whose outer link is the procedure's closure environment.
C19_BindArgCount ==
    /\ (Evaluated /\ lastText \in {T_CallQ2, T_CallQ0} /\ ProcBefore(<<"q">>))
          => (ArgCountError /\ frames = pre.frames /\ procs = pre.procs)
    /\ (Evaluated /\ lastText = T_CallS2 /\ ProcBefore(<<"s">>))
          => (ArgCountError /\ frames = pre.frames /\ procs = pre.procs)
    /\ (Evaluated /\ lastText = T_CallW1 /\ ProcBefore(<<"w">>))
          => (ArgCountError /\ frames = pre.frames /\ procs = pre.procs)
    /\ (Evaluated /\ lastText = T_CallQ /\ ProcBefore(<<"q">>))
          => /\ lastRes.st = "ok"
             /\ lastRes.val = CellNum(7)
             /\ CallFrame(<<"q">>, Put(<<>>, <<"a">>, CellNum(7)))
    /\ (Evaluated /\ lastText = T_CallS /\ ProcBefore(<<"s">>))
          => /\ lastRes.st = "ok"
             /\ lastRes.val = CellProc(Len(pre.procs) + 1)
             /\ CallFrame(<<"s">>, Put(<<>>, <<"a">>, CellNum(7)))
    /\ (Evaluated /\ lastText = T_CallW /\ ProcBefore(<<"w">>))
          => /\ lastRes.st = "ok"
             /\ lastRes.val = CellNum(-1)
             /\ CallFrame(<<"w">>, Put(Put(<<>>, <<"a">>, CellNum(7)), <<"b">>, CellNum(8)))

\* (s 7 8), with s defined by (define (s a) (lambda () (a))), has failed with
\* the argument-count error
C19_BindArgCount_Witness ==
    /\ Evaluated
    /\ lastText = T_CallS2
    /\ ProcBefore(<<"s">>)
    /\ ArgCountError
    /\ frames = pre.frames
    /\ procs = pre.procs

\* the base source is the active one and has reached its end
BaseEnded == Base(cs) /\ Eof(cs)

\* the active source is a pushed one and the read of this iteration reached its end
PushedEnded == pc = "eval" /\ ~Base(cs) /\ Eof(cs)

\* this step calls cs.reset()
Pops == pc = "eval" /\ WantsReset(Eval(parsed, 1, State))

\* this step is start's expr(true), which reads tokens
Reads == pc = "read"

\* C20: when a pushed source has reached its end, the loop pops it and goes
\* on with the source that was active before it; once the base source has
\* reached its end the loop has terminated: no step pops and no step reads.
C20_EndOfSource ==
    [][/\ PushedEnded =>
             /\ cs'.ip = cs.old[Len(cs.old)]
             /\ cs'.old = SubSeq(cs.old, 1, Len(cs.old) - 1)
       /\ BaseEnded => (~Pops /\ ~Reads)]_vars

\* main called without a file argument: start(true) reads cin
Interactive == Len(argv) = 0

\* main called with a file argument, whose stream is still being read
NonInteractive == Len(argv) > 0 /\ ~Base(cs)

\* the iteration that just ended raised an error, in the parser or the evaluator
Failed == pc = "read" /\ lastRes.st = "err"

\* the error was written as "Bad expression: <message>" and the loop is at its next read
Reported == pc = "read" /\ Len(out) > 0 /\ out[Len(out)] = OutItem("bad", <<>>, lastRes.msg)

\* interactive half of C21: every error of a top-level expression is reported
\* and the loop goes on
C21_InteractiveReported == (Interactive /\ Failed) => Reported

C21_InteractiveReported_Witness ==
    Interactive /\ Failed /\ Reported /\ lastRes.by = "eval" /\ steps < MaxSteps

\* C21: in interactive mode an error of a top-level expression is reported as
\* "Bad expression: <message>" and the loop goes on; with the input taken from
\* a file argument the first error ends the run: no step follows it.
C21_ErrorsReportedOrAbort ==
    [][/\ (Interactive /\ Failed') => Reported'
       /\ (NonInteractive /\ Failed) => ~Reads]_vars

\* the loop has gone on after an error in the file given as argument: the
\* definition that follows the failing expression has been evaluated
C21_FileContinues ==
    /\ argv = <<<<"b", "a", "d">>>>
    /\ Evaluated
    /\ lastRes.st = "ok"
    /\ <<"y">> \in DOMAIN frames[1].env

\* the copies of e0 that init_env has pushed onto envs
InitCopies == {i \in DOMAIN frames : frames[i].store = "heap" /\ frames[i].outer = 0}

\* the globals are initialized by the first call and by no other
InitOnce ==
    /\ inited <=> steps > 0
    /\ Cardinality(InitCopies) = IF steps > 0 THEN 1 ELSE 0

\* what expr(true) returns for the text t read on its own
OwnCells(t) == expr(TRUE, SetInput(t, Cs0)).list

\* the call in progress has parsed one expression, the first of its own text,
\* and reads from the stream made of that text
ReadsOwnText ==
    pc = "eval" =>
        /\ parsed = OwnCells(lastText)
        /\ cs.streams[cs.ip].buf = lastText
        /\ cs.ip = Len(cs.streams)

\* a call that uses y after an earlier call has defined it returns that value,
\* and a second expression in the text of a call is not evaluated
SeesEarlier ==
    (Evaluated /\ lastText \in {T_AddY, T_AddYDefY} /\ BoundBefore(<<"y">>)) =>
        /\ lastRes.st = "ok"
        /\ lastRes.val = pre.frames[1].env[<<"y">>]
        /\ frames[1] = pre.frames[1]

\* C22: over any sequence of expr_str calls the globals are initialized exactly
\* once, by the first call; each call evaluates one top-level expression of its
\* own text in the one global environment, whose bindings made by earlier calls
\* stay visible; no call moves the read position of the text of an earlier call.
C22_ExprStrCalls ==
    /\ [](InitOnce /\ ReadsOwnText /\ SeesEarlier)
    /\ [][/\ DOMAIN frames[1].env \subseteq DOMAIN frames'[1].env
          /\ \A i \in DOMAIN cs.streams :
                i # cs.ip \/ pc = "read" => cs'.streams[i].pos = cs.streams[i].pos]_vars

\* the third call uses the y that an earlier call defined, after another call
C22_ExprStrCalls_Witness ==
    /\ suite = "str"
    /\ steps = 3
    /\ Evaluated
    /\ lastText = T_AddY
    /\ BoundBefore(<<"y">>)
    /\ lastRes.val = CellNum(5)
    /\ Cardinality(InitCopies) = 1

\* the expression about to be evaluated is a call of a user-defined procedure
ProcCall ==
    /\ pc = "eval"
    /\ Len(parsed) > 0
    /\ parsed[1].kind = "Name"
    /\ parsed[1].str \in DOMAIN frames[1].env
    /\ frames[1].env[parsed[1].str].kind = "Proc"

\* the arguments as the loop of the Name case collects them
Shortcut == Call_collectArgs(parsed, 1, <<>>, 1, State)

\* the arguments as evlist returns them for all the operand cells
AllByEvlist == Evlist(Tail(parsed), 1, State)

\* the call made with the arguments r
CallWith(r) ==
    IF r.st # "ok" THEN r ELSE Call_apply(frames[1].env[parsed[1].str], r.vals, r.S)

\* C23: for every call of a user-defined procedure the argument list the
\* look-ahead shortcut collects equals the list evlist returns for all the
\* operand cells, also when an operand is a Name bound to a procedure, and so
\* the call has the same result either way.
C23_ShortcutIsEvlist ==
    ProcCall =>
        /\ Shortcut.st = AllByEvlist.st
        /\ Shortcut.vals = AllByEvlist.vals
        /\ CallWith(Shortcut).st = CallWith(AllByEvlist).st
        /\ CallWith(Shortcut).val = CallWith(AllByEvlist).val

\* (q q 7): the shortcut passes the procedure q and 7, evlist calls q on 7
C23_ProcOperand ==
    /\ ProcCall
    /\ lastText = T_CallQQ7
    /\ Shortcut.vals = <<frames[1].env[<<"q">>], CellNum(7)>>
    /\ AllByEvlist.vals = <<CellNum(7)>>
    /\ CallWith(Shortcut).st = "err"
    /\ CallWith(AllByEvlist).val = CellNum(7)

\* the two agree on a call whose operands are numbers
C23_NumberOperand ==
    /\ ProcCall
    /\ lastText = T_CallQ
    /\ Shortcut.vals = <<CellNum(7)>>
    /\ AllByEvlist.vals = <<CellNum(7)>>

\* the cell the lexer makes of an atom
AtomCell(s) ==
    CASE s = <<"+">> -> CellK("Add")
      [] s = <<"1">> -> CellNum(1)
      [] s = <<"c", "a", "r">> -> CellK("Car")
      [] OTHER -> CellStr(s)

\* the cells of a sequence of items: one cell per atom, one Expr cell per group
RECURSIVE Cells(_)
Cells(items) ==
    IF Len(items) = 0 THEN <<>>
    ELSE LET h == items[1] IN
         <<IF "a" \in DOMAIN h THEN AtomCell(h.a) ELSE CellList(Cells(h.g))>>
             \o Cells(Tail(items))

\* a sequence of cells without the payload the lexer leaves in the cells of
\* keywords and operators
RECURSIVE Norm(_)
Norm(cells) ==
    [k \in 1..Len(cells) |->
        LET c == cells[k] IN
        IF c.kind = "Expr" THEN CellList(Norm(c.list))
        ELSE IF c.kind = "Name" THEN CellStr(c.str)
        ELSE IF c.kind = "Number" THEN CellNum(c.num)
        ELSE CellK(c.kind)]

\* start is about to read the first expression of the file given as argument
FirstRead == suite = "parse" /\ pc = "read" /\ cs = MainInput(argv)

\* C24: expr(true) on a stream that starts with a well-parenthesized
\* expression returns the cells of that expression in input order, each
\* nested group as one Expr cell holding its own cells, without the comments,
\* and reads no further than the closing parenthesis; a nested group still
\* open at the end of the stream raises "')' expected".
C24_ParseExpr ==
    [][FirstRead =>
          /\ \A i \in ParseInputs :
                argv = <<ParseName(ParseText(i))>> =>
                    /\ pc' = "eval"
                    /\ Norm(parsed') = Cells(i.tree)
                    /\ cs'.ip = 2
                    /\ cs'.streams[2].pos = Len(ParseMatched(i))
          /\ \A t \in OpenTexts :
                argv = <<ParseName(t)>> =>
                    /\ pc' = "read"
                    /\ lastRes'.st = "err"
                    /\ lastRes'.msg = "')' expected"]_vars

\* the expression (+ (x (1)) 1), written after a comment and before a second
\* expression, has been read: three cells, the second a group holding a group
C24_ParseExpr_Witness ==
    /\ suite = "parse"
    /\ pc = "eval"
    /\ pre.frames = <<>>
    /\ argv = <<ParseName(ParseText([tree |-> <<Atom(<<"+">>),
                                               Group(<<Atom(<<"x">>), Group(<<Atom(<<"1">>)>>)>>),
                                               Atom(<<"1">>)>>,
                                     comment |-> "inside", rest |-> TRUE]))>>
    /\ Len(parsed) = 3
    /\ parsed[2].kind = "Expr"
    /\ Len(parsed[2].list) = 2
    /\ parsed[2].list[2] = CellList(<<CellNum(1)>>)
    /\ Good(cs.streams[2])

\* the expression about to be evaluated has a head of the dispatch table: a
\* special form, a primitive operator, or a Name bound to a procedure
TableHead ==
    /\ pc = "eval"
    /\ Len(parsed) > 0
    /\ \/ parsed[1].kind \in {"Quote", "Begin", "Lambda", "Define", "Let", "Cond"}
       \/ parsed[1].kind \in Primitives
       \/ ProcCall

ByEval == Eval(parsed, 1, State)

ByEvlist == Evlist(parsed, 1, State)

\* C25: for every sequence whose head is a special form, a primitive operator
\* or a Name bound to a procedure, evlist returns the one-element sequence
\* holding the value eval returns for it, and either both raise an error or
\* neither does.
C25_EvalEvlistAgree ==
    TableHead =>
        /\ ByEval.st = ByEvlist.st
        /\ ByEval.st = "ok" => ByEvlist.vals = <<ByEval.val>>

\* a cond whose first predicate is truthy: eval returns the paired value,
\* evlist goes on to the next clause and raises an error
C25_CondTaken ==
    /\ TableHead
    /\ parsed[1].kind = "Cond"
    /\ ByEval.st = "ok"
    /\ ByEvlist.st = "err"

\* the two agree on a primitive applied to numbers
C25_PrimitiveAgrees ==
    /\ TableHead
    /\ parsed[1].kind = "Add"
    /\ ByEval.st = "ok"
    /\ ByEvlist.vals = <<ByEval.val>>

\* the evaluation of the expression read ends without an out-of-range read:
\* with a value or with an error
WithinBounds == Eval(parsed, 1, State).st \in {"ok", "err"}

\* C26: for every sequence of cells the parser can produce, evaluation either
\* returns a value or raises an error; it never reads a cell at or past the
\* end of a sequence nor an element of an empty list.
C26_NoReadPastEnd == pc = "eval" => WithinBounds

\* the expressions of the claim's examples that the parser produces and whose
\* evaluation reads out of range
C26_OutOfRange ==
    /\ pc = "eval"
    /\ lastText \in {T_CondShort, T_LetShort, T_DefineEmpty, T_CarNil}
    /\ ~WithinBounds

\* car of a list of two elements stays within bounds
C26_CarInRange ==
    /\ pc = "eval"
    /\ lastText = T_CarList
    /\ Eval(parsed, 1, State).st = "ok"
    /\ Eval(parsed, 1, State).val = CellNum(1)

\* the Cell_stream as it is when start tests res.kind == Kind::End || cs.eof()
AtReset == Eval(parsed, 1, State).S.cs

\* C27: the loop pops the input-stream stack only when a pushed source exists
\* and has reached its end: an expression that merely evaluates to End, such
\* as (), pops nothing, and reset is never invoked while only the base source
\* remains.
C27_PopOnlyEnded == Pops => (~Base(AtReset) /\ Eof(AtReset))

\* () typed at the prompt: reset is called with nothing pushed
C27_ResetAtBase ==
    /\ Pops
    /\ lastText = T_Empty
    /\ Base(AtReset)
    /\ ~Eof(AtReset)

\* the file nil starts with (): it has been popped before its define was read
C27_PoppedUnread ==
    /\ argv = <<<<"n", "i", "l">>>>
    /\ steps = 0
    /\ pc = "read"
    /\ Base(cs)
    /\ cs.streams[2].pos < Len(cs.streams[2].buf) - 1
    /\ <<"y">> \notin DOMAIN frames[1].env

\* a file is popped after its last expression has been read to the end
C27_PoppedAtEnd ==
    /\ argv = <<<<"l", "i", "b">>>>
    /\ Pops
    /\ ~Base(AtReset)
    /\ Eof(AtReset)

====
